---- MODULE Spec2Model ----
(***************************************************************************)
(* Adobe Web SDK Inspector, background script (src/background.js).         *)
(*                                                                         *)
(* The background script is a single-threaded event loop: every listener   *)
(* (network hook, timer callback, port event, control message) runs to     *)
(* completion, so each listener is one atomic action.                      *)
(*                                                                         *)
(* Time is Date.now() counted in minutes: the age bound is 5 minutes and   *)
(* the sweep interval 1 minute.  A timer callback that is due runs before  *)
(* the clock reaches the next minute (Tick is disabled while a callback is *)
(* due); listeners that arrive in the same minute as a due callback may    *)
(* still run before it.                                                    *)
(***************************************************************************)
EXTENDS Integers, Sequences, FiniteSets, TLC

(***************************************************************************)
(* Bounds of the model.                                                    *)
(***************************************************************************)
\* The clock stops at MaxTime minutes.
MaxTime == 6
\* RequestCache is constructed with maxSize = MaxSize (100 by default).
MaxSize == 2
\* processRequestData is entered at most MaxRequests times.
MaxRequests == 2

(***************************************************************************)
(* Program constants, in minutes.                                          *)
(***************************************************************************)
\* RequestCache constructor: expiryMs = 5 * 60 * 1000
ExpiryMs == 5
\* setInterval sweep: now - value.timestamp > 5 * 60 * 1000
SweepAgeMs == 5
\* setInterval sweep: every 60 * 1000
SweepIntervalMs == 1

(***************************************************************************)
(* Values.                                                                 *)
(***************************************************************************)
\* A JavaScript value that may be undefined: {} is undefined, {v} is v.
Undefined == {}
Some(v) == {v}
IsDefined(o) == o # {}
TheValue(o) == CHOOSE v \in o : TRUE

\* A string is the sequence of its pieces (a path 'web.name' is
\* <<"web", ".", "name">>); String.prototype.includes is the test for a
\* contiguous run of pieces.
Includes(s, sub) ==
    \E i \in 0..(Len(s) - Len(sub)) : SubSeq(s, i + 1, i + Len(sub)) = sub

\* String.prototype.split('.'): the sequence of the segments between dots.
RECURSIVE Split(_)
Split(s) ==
    IF \A i \in 1..Len(s) : s[i] # "."
    THEN <<s>>
    ELSE LET i == CHOOSE i \in 1..Len(s) :
                      s[i] = "." /\ \A j \in 1..(i - 1) : s[j] # "."
         IN  <<SubSeq(s, 1, i - 1)>> \o Split(SubSeq(s, i + 1, Len(s)))

TargetUrl == <<"https://x.com", "/ee/", "v1?", "configId=", "1&", "requestId=", "2">>
OtherUrl == <<"https://x.com", "/other?", "configId=", "1">>
Urls == {TargetUrl, OtherUrl}

\* isAdobeWebSdkUrl that is content with any one of the markers.
isAdobeWebSdkUrl_AnyMarker(url) ==
    /\ url.t = "string"
    /\ Len(url.v) > 0
    /\ \/ Includes(url.v, <<"/ee/">>)
       \/ Includes(url.v, <<"configId=">>)
       \/ Includes(url.v, <<"requestId=">>)

\* utils.isAdobeWebSdkUrl(url); url is [t |-> "string", v |-> the string],
\* or a value of another type.
isAdobeWebSdkUrl(url) ==
    /\ url.t = "string"
    /\ Len(url.v) > 0
    /\ Includes(url.v, <<"/ee/">>)
    /\ Includes(url.v, <<"configId=">>)
    /\ Includes(url.v, <<"requestId=">>)

\* panel.js MAX_RECONNECT_ATTEMPTS
MAX_RECONNECT_ATTEMPTS == 5
\* The reloads of the panel page and the timer-driven calls of
\* connectToBackgroundPage that are followed.
MaxReloads == 3
MaxReconnects == 7

\* Request ids the network layer hands out, each with the method and the
\* type of its request.
RequestIds == {"r1", "r2", "r3"}
MethodOf(id) == IF id = "r3" THEN "GET" ELSE "POST"
TypeOf(id) == IF id = "r2" THEN "ping" ELSE "xmlhttprequest"
StatusCodes == {200, 500}

\* Two requests in flight at once, each to its own target URL.
SecondUrl == <<"https://y.com", "/ee/", "v2?", "configId=", "3&", "requestId=", "4">>
TwoRequests ==
    { [requestId |-> "r1", url |-> TargetUrl, method |-> MethodOf("r1"), type |-> TypeOf("r1")],
      [requestId |-> "r2", url |-> SecondUrl, method |-> MethodOf("r2"), type |-> TypeOf("r2")] }

\* The details objects of the webRequest events of the requests ids.
DetailsOf(ids) ==
    { [requestId |-> id, url |-> u, method |-> MethodOf(id), type |-> TypeOf(id)] :
        id \in ids, u \in Urls }

(***************************************************************************)
(* JSON values: [t, v] with t the type of the value.  An object is a       *)
(* function from keys (strings) to values, an array a sequence of values.  *)
(***************************************************************************)
JObj(f) == [t |-> "object", v |-> f]
JArr(a) == [t |-> "array", v |-> a]
JStr(x) == [t |-> "string", v |-> x]
JNum(n) == [t |-> "number", v |-> n]
JNull == [t |-> "null", v |-> 0]
JBool(b) == [t |-> "boolean", v |-> b]

\* !!x for a value that may be undefined
Truthy(o) ==
    /\ IsDefined(o)
    /\ LET x == TheValue(o)
       IN  CASE x.t = "null" -> FALSE
             [] x.t = "boolean" -> x.v
             [] x.t = "number" -> x.v # 0
             [] x.t = "string" -> x.v # <<>>
             [] OTHER -> TRUE

\* Array.isArray(x) for a value that may be undefined
IsArray(o) == IsDefined(o) /\ TheValue(o).t = "array"

\* The array index a key stands for, -1 when it is no index.
IndexOfKey(key) ==
    CASE key = <<"0">> -> 0
      [] key = <<"1">> -> 1
      [] OTHER -> -1

\* x[key] for a value x that is not undefined or null: the own properties
\* of objects and the elements of arrays.  (Strings and numbers have no
\* property any path of the model names.)
Prop(x, key) ==
    CASE x.t = "object" -> IF key \in DOMAIN x.v THEN Some(x.v[key]) ELSE Undefined
      [] x.t = "array" -> IF IndexOfKey(key) >= 0 /\ IndexOfKey(key) < Len(x.v)
                          THEN Some(x.v[IndexOfKey(key) + 1])
                          ELSE Undefined
      [] OTHER -> Undefined

\* The reduce of utils.getNestedProperty over the keys from the i-th on.
RECURSIVE ReduceKeys(_, _, _)
ReduceKeys(acc, keys, i) ==
    IF i > Len(keys) THEN acc
    ELSE ReduceKeys(IF Truthy(acc) THEN Prop(TheValue(acc), keys[i]) ELSE Undefined,
                    keys, i + 1)

\* The reduce without the test of acc: reading a property of undefined or
\* of null throws a TypeError, which nothing catches.
RECURSIVE ReduceKeys_Unguarded(_, _, _)
ReduceKeys_Unguarded(acc, keys, i) ==
    IF i > Len(keys) THEN acc
    ELSE IF ~IsDefined(acc) \/ TheValue(acc).t \in {"null", "TypeError"}
    THEN Some([t |-> "TypeError", v |-> 0])
    ELSE ReduceKeys_Unguarded(Prop(TheValue(acc), keys[i]), keys, i + 1)

\* getNestedProperty without the guards and without the try.
getNestedProperty_Unguarded(obj, path) ==
    IF path = <<>> THEN Undefined
    ELSE ReduceKeys_Unguarded(obj, Split(path), 1)

\* utils.getNestedProperty(obj, path): the value, or undefined
getNestedProperty(obj, path) ==
    IF ~Truthy(obj) \/ path = <<>> THEN Undefined
    ELSE ReduceKeys(obj, Split(path), 1)

\* utils.getDefaultPaths
getDefaultPaths ==
    << <<"eventType">>,
       <<"web", ".", "webPageDetails", ".", "URL">>,
       <<"web", ".", "webInteraction", ".", "name">>,
       <<"web", ".", "webInteraction", ".", "region">> >>

\* badPrefixes of utils.sanitizeTargetPaths
badPrefixes ==
    << <<"_experience", ".", "analytics">>,
       <<"_intelcorp">>,
       <<"meta", ".", "state">>,
       <<"timestamp">> >>

\* [...new Set(a)]: the elements of a, each at its first place
RECURSIVE Dedup(_)
Dedup(a) ==
    IF a = <<>> THEN <<>>
    ELSE LET init == Dedup(SubSeq(a, 1, Len(a) - 1))
             last == a[Len(a)]
         IN  IF \E i \in 1..Len(init) : init[i] = last THEN init ELSE Append(init, last)

\* sanitizeTargetPaths without the Set: defaults, then the clean paths.
sanitizeTargetPaths_NoDedup(paths) ==
    IF paths.t # "array" THEN getDefaultPaths
    ELSE getDefaultPaths \o
         SelectSeq(paths.v,
             LAMBDA path : ~\E i \in 1..Len(badPrefixes) : Includes(path, badPrefixes[i]))

\* sanitizeTargetPaths that adds the defaults only when no clean path is left.
sanitizeTargetPaths_NoDefaults(paths) ==
    IF paths.t # "array" THEN getDefaultPaths
    ELSE LET cleanPaths ==
                 SelectSeq(paths.v,
                     LAMBDA path : ~\E i \in 1..Len(badPrefixes) : Includes(path, badPrefixes[i]))
         IN  IF cleanPaths = <<>> THEN getDefaultPaths ELSE Dedup(cleanPaths)

\* sanitizeTargetPaths with startsWith in place of includes.
sanitizeTargetPaths_StartsWith(paths) ==
    IF paths.t # "array" THEN getDefaultPaths
    ELSE LET cleanPaths ==
                 SelectSeq(paths.v,
                     LAMBDA path : ~\E i \in 1..Len(badPrefixes) :
                         /\ Len(path) >= Len(badPrefixes[i])
                         /\ SubSeq(path, 1, Len(badPrefixes[i])) = badPrefixes[i])
         IN  Dedup(getDefaultPaths \o cleanPaths)

\* utils.sanitizeTargetPaths(paths); paths is [t |-> "array", v |-> the
\* list of paths], or a value of another type.
sanitizeTargetPaths(paths) ==
    IF paths.t # "array" THEN getDefaultPaths
    ELSE LET cleanPaths ==
                 SelectSeq(paths.v,
                     LAMBDA path : ~\E i \in 1..Len(badPrefixes) : Includes(path, badPrefixes[i]))
         IN  Dedup(getDefaultPaths \o cleanPaths)

\* The text of a request body: JSON text (given by the value it parses to),
\* text that is no JSON, or the empty string.
JsonText(x) == [kind |-> "json", value |-> x]
GarbageText == [kind |-> "garbage", value |-> JNull]
EmptyText == [kind |-> "empty", value |-> JNull]

\* utils.safeParseJson(str): the parsed value, or null
safeParseJson(str) ==
    CASE str.kind = "json" -> str.value
      [] OTHER -> JNull

(***************************************************************************)
(* Request bodies the hooks are given.                                     *)
(***************************************************************************)
\* {events: [{xdm: {eventType: 'click', web: {webInteraction: {name: 'btn'}}}}]}
ClickXdm ==
    JObj((<<"eventType">> :> JStr(<<"click">>)) @@
         (<<"web">> :> JObj(<<"webInteraction">> :> JObj(<<"name">> :> JStr(<<"btn">>)))))
EventBody == JObj(<<"events">> :> JArr(<<JObj(<<"xdm">> :> ClickXdm)>>))
\* {events: [{xdm: {foo: 1}}]}
ZeroMatchBody == JObj(<<"events">> :> JArr(<<JObj(<<"xdm">> :> JObj(<<"foo">> :> JNum(1)))>>))

\* {events: [{eventType: 'view'}]}: the event has no xdm
BareEventBody == JObj(<<"events">> :> JArr(<<JObj(<<"eventType">> :> JStr(<<"view">>))>>))
\* {events: [{xdm: {eventType: '', web: {webInteraction: {name: 'btn'}}}}]}
BlankTypeBody ==
    JObj(<<"events">> :> JArr(<<JObj(<<"xdm">> :>
        JObj((<<"eventType">> :> JStr(<<>>)) @@
             (<<"web">> :> JObj(<<"webInteraction">> :> JObj(<<"name">> :> JStr(<<"btn">>))))))>>))
\* {meta: {foo: 1}, eventType: 'm'}
MetaBody == JObj((<<"meta">> :> JObj(<<"foo">> :> JNum(1))) @@ (<<"eventType">> :> JStr(<<"m">>)))
\* {requestId: 'q'}
RequestIdBody == JObj(<<"requestId">> :> JStr(<<"q">>))
\* {events: [], requestId: 'q'}
NoEventsBody == JObj((<<"events">> :> JArr(<<>>)) @@ (<<"requestId">> :> JStr(<<"q">>)))
\* {foo: 1}
PlainBody == JObj(<<"foo">> :> JNum(1))

\* details.requestBody: raw is the list of its chunks, each with the text
\* its bytes spell and whether decodeURIComponent accepts it; formData may
\* be undefined.
RawBody(text) == [raw |-> <<[text |-> text, decodable |-> TRUE]>>, formData |-> Undefined]
RequestBodies ==
    { Undefined,
      Some(RawBody(JsonText(EventBody))),
      Some(RawBody(JsonText(ZeroMatchBody))),
      Some(RawBody(GarbageText)),
      Some([raw |-> <<[text |-> JsonText(EventBody), decodable |-> FALSE]>>, formData |-> Undefined]),
      Some([raw |-> <<>>, formData |-> Some(JObj(<<"events">> :> JArr(<<JStr(<<"x">>)>>)))]),
      Some([raw |-> <<>>, formData |-> Undefined]) }

\* Request bodies of every shape processRequestData tells apart.
ShapedBodies ==
    { Some(RawBody(JsonText(x))) :
        x \in {EventBody, ZeroMatchBody, BareEventBody, BlankTypeBody, MetaBody,
               RequestIdBody, NoEventsBody, PlainBody} }

\* The requestData that onBeforeRequest reads from details.requestBody.
RequestDataOf(requestBody) ==
    IF Len(requestBody.raw) > 0
    THEN IF requestBody.raw[1].decodable THEN requestBody.raw[1].text ELSE EmptyText
    ELSE IF IsDefined(requestBody.formData)
         THEN JsonText(TheValue(requestBody.formData))
         ELSE EmptyText

\* Outcomes of chrome.runtime.sendMessage: a receiver took the message, the
\* promise was rejected (no receiver), or the call threw.
GenericOutcomes == {"delivered", "rejected", "threw"}

\* Panels that may connect, and the names their ports connect under.
Ports == {"p1", "p2"}
PortNames == {"devtools-panel", "popup"}
Tabs == {"t1", "t2"}

\* Outcomes of chrome.tabs.sendMessage: the content script of the tab took
\* the message, or the promise was rejected (no receiver in the tab).
TabOutcomes == {"delivered", "rejected"}

\* A port that is not connected.
NoPort == [name |-> "", state |-> "none"]

\* message.paths of an 'updatePaths' message: a list of paths (strings), or
\* a value that is no list (the string '', or undefined when the message
\* has no paths).
NoPaths == [t |-> "undefined", v |-> <<>>]
RequestIdPath == <<"requestId">>
PathInputs ==
    { JArr(<<>>),
      JArr(<<RequestIdPath>>),
      JArr(<< <<"foo", ".", "timestamp">>, RequestIdPath, <<"_intelcorp", "X">>,
              <<"web", ".", "webInteraction", ".", "name">>, RequestIdPath,
              <<"meta", ".", "state", ".", "x">>, <<"a", ".", "_experience", ".", "analytics">>,
              <<"foo">>, <<"eventType">>, <<"foo">> >>),
      JStr(<<>>),
      NoPaths }

\* The object a listener of chrome.runtime.onMessage hands to sendResponse:
\* each field is undefined unless the listener sets it.
NoFields ==
    [status |-> Undefined, message |-> Undefined, sanitizedPaths |-> Undefined,
     isListening |-> Undefined, targetPaths |-> Undefined, debugMode |-> Undefined,
     requestCounter |-> Undefined]
\* { status }
StatusResponse(status) == [NoFields EXCEPT !.status = Some(status)]
\* { status: 'error', message }
ErrorResponse(message) == [NoFields EXCEPT !.status = Some("error"), !.message = Some(message)]

\* Messages the switch has no state-changing case for: no message at all,
\* {} (no action), {action: ''}, {action: 'devtools-init'}, and actions the
\* switch does not know.
OtherMessages ==
    { Undefined,
      Some([action |-> Undefined]),
      Some([action |-> Some("")]),
      Some([action |-> Some("devtools-init")]),
      Some([action |-> Some("bogus")]),
      Some([action |-> Some("ToggleListening")]) }

\* message.value of a 'toggleListening' or 'toggleDebug' message: true,
\* false, or undefined when the message has no value.
ToggleValues == {Some(JBool(TRUE)), Some(JBool(FALSE)), Undefined}

\* What chrome.storage.local may hold when the background script starts.
EmptyStorage == [isListening |-> Undefined, debugMode |-> Undefined, targetPaths |-> Undefined]
InitialStorages ==
    { EmptyStorage,
      [isListening |-> Some(TRUE), debugMode |-> Some(FALSE),
       targetPaths |-> Some(<< <<"timestamp">>, <<"foo", ".", "bar">> >>)] }

(***************************************************************************)
(* State.                                                                  *)
(***************************************************************************)
VARIABLES
    now,            \* Date.now(), in minutes
    cache,          \* requestCache.cache: a Map, the sequence of its [key, value] in insertion order
    timeouts,       \* requestCache.timeouts: a Map from key to timer id
    timers,         \* the pending setTimeout timers of the event loop: [id, key, due]
    lastRemoved,    \* the latest removal from the cache, [key, by], until a set removes nothing
    sweepDue,       \* the time the setInterval callback runs next
    isListening,    \* state.isListening
    targetPaths,    \* state.targetPaths
    debugMode,      \* state.debugMode
    requestCounter, \* state.requestCounter
    storage,        \* chrome.storage.local
    initDone,       \* the storage.get callback of stateManager.init has run
    connections,    \* devToolsManager.connections
    ports,          \* each port: its name and "none", "open" or "closed" (postMessage throws)
    received,       \* per port, the messages postMessage has handed to it
    panelLoad,      \* the devtools panel page: "none", "cleared" (its storage.clear is done) or "loaded"
    panelPage,      \* the panel page: "closed", "loading", "missing" or "found" (the get of the flag has answered), "flagging", "ready"
    reloadedForCleanup, \* the reloadedForCleanup key of chrome.storage.local
    reloads,        \* the location.reload() calls since the panel was opened
    connectionAttempts, \* panel.js connectionAttempts
    backgroundPort, \* panel.js backgroundPort: "undefined", "port" or "null"
    reconnectDelay, \* the seconds of the pending setTimeout(connectToBackgroundPage, delay), or undefined
    statusText,     \* statusElement.textContent as updateStatus left it
    reconnects,     \* the calls of connectToBackgroundPage the timer has made since the page was loaded
    genericLog,     \* the chrome.runtime.sendMessage calls: [id, outcome]
    tabQueries,     \* the pending chrome.tabs.query callbacks: [id of the message, tab the query found]
    activeTab,      \* the focused tab, or undefined
    tabReceived,    \* per tab, the messages chrome.tabs.sendMessage has handed to it
    lastDispatch,   \* the last message sendResults built: [id, message], or undefined
    fault,          \* an exception or a promise rejection has escaped a listener
    responses       \* the sendResponse calls of the latest onMessage listener run

timeVars == <<now, sweepDue>>
cacheVars == <<cache, timeouts, timers, lastRemoved>>
stateVars == <<isListening, targetPaths, debugMode, requestCounter>>
storageVars == <<storage, initDone>>
portVars == <<connections, ports, received, panelLoad>>
panelVars == <<panelPage, reloadedForCleanup, reloads, connectionAttempts, backgroundPort,
               reconnectDelay, statusText, reconnects>>
tabVars == <<tabQueries, activeTab, tabReceived>>
outVars == <<genericLog, lastDispatch, fault, responses>>
vars == <<timeVars, cacheVars, stateVars, storageVars, portVars, panelVars, tabVars, outVars>>

(***************************************************************************)
(* Map (insertion ordered), as a sequence of [key, value].                 *)
(***************************************************************************)
MapKeys(m) == { m[i].key : i \in 1..Len(m) }
MapHas(m, k) == k \in MapKeys(m)
MapIndex(m, k) == CHOOSE i \in 1..Len(m) : m[i].key = k
MapGet(m, k) == m[MapIndex(m, k)].value
\* Map.prototype.set: an existing key keeps its place, a new key goes last.
MapSet(m, k, v) ==
    IF MapHas(m, k)
    THEN [m EXCEPT ![MapIndex(m, k)] = [key |-> k, value |-> v]]
    ELSE Append(m, [key |-> k, value |-> v])
\* Map.prototype.delete
MapDelete(m, k) == SelectSeq(m, LAMBDA e : e.key # k)

(***************************************************************************)
(* RequestCache.  rc is [cache, timeouts, timers]: the two Maps of the     *)
(* object and the event loop's pending timers that setTimeout and          *)
(* clearTimeout act on.                                                    *)
(***************************************************************************)
\* clearTimeout(id)
clearTimeout(tms, id) == { tm \in tms : tm.id # id }

\* The id setTimeout returns, named by the key and the time of the call.
\* No two pending timers share it: set clears the key's pending timer
\* before it calls setTimeout.
TimerId(key, t) == <<key, t>>

\* RequestCacheDelete that leaves the key's pending timer alone.
RequestCacheDelete_KeepsTimer(rc, key) ==
    [cache |-> MapDelete(rc.cache, key),
     timeouts |-> [k \in DOMAIN rc.timeouts \ {key} |-> rc.timeouts[k]],
     timers |-> rc.timers]

\* RequestCache.delete
RequestCacheDelete(rc, key) ==
    [cache |-> MapDelete(rc.cache, key),
     timeouts |-> [k \in DOMAIN rc.timeouts \ {key} |-> rc.timeouts[k]],
     timers |-> IF key \in DOMAIN rc.timeouts
                THEN clearTimeout(rc.timers, rc.timeouts[key])
                ELSE rc.timers]

\* OldestKey with the comparison turned round: the newest entry.
OldestKey_Newest(m) ==
    LET i == CHOOSE i \in 1..Len(m) :
                 /\ \A j \in 1..Len(m) : m[i].value.timestamp >= m[j].value.timestamp
                 /\ \A j \in 1..(i - 1) : m[j].value.timestamp < m[i].value.timestamp
    IN  m[i].key

\* The scan of RequestCache.set for the oldest entry: the first entry, in
\* insertion order, whose timestamp is strictly below all those before it
\* and not above any after it.
OldestKey(m) ==
    LET i == CHOOSE i \in 1..Len(m) :
                 /\ \A j \in 1..Len(m) : m[i].value.timestamp <= m[j].value.timestamp
                 /\ \A j \in 1..(i - 1) : m[j].value.timestamp > m[i].value.timestamp
    IN  m[i].key

\* RequestCacheStore without the clearTimeout of the key's pending timer.
RequestCacheStore_NoClear(rc, key, value, t) ==
    LET id == TimerId(key, t)
    IN  [cache |-> MapSet(rc.cache, key, [value EXCEPT !.timestamp = t]),
         timeouts |-> [k \in DOMAIN rc.timeouts \cup {key} |->
                          IF k = key THEN id ELSE rc.timeouts[k]],
         timers |-> rc.timers \cup {[id |-> id, key |-> key, due |-> t + ExpiryMs]}]

\* RequestCacheStore whose setTimeout never runs its callback.
RequestCacheStore_NoTimer(rc, key, value, t) ==
    LET cleared == IF key \in DOMAIN rc.timeouts
                   THEN clearTimeout(rc.timers, rc.timeouts[key])
                   ELSE rc.timers
        id == TimerId(key, t)
    IN  [cache |-> MapSet(rc.cache, key, [value EXCEPT !.timestamp = t]),
         timeouts |-> [k \in DOMAIN rc.timeouts \cup {key} |->
                          IF k = key THEN id ELSE rc.timeouts[k]],
         timers |-> cleared]

\* RequestCache.set(key, value) at time t, up to the size check: the old
\* timer cleared, the value stamped and stored, the new timer set.
RequestCacheStore(rc, key, value, t) ==
    LET cleared == IF key \in DOMAIN rc.timeouts
                   THEN clearTimeout(rc.timers, rc.timeouts[key])
                   ELSE rc.timers
        id == TimerId(key, t)
    IN  [cache |-> MapSet(rc.cache, key, [value EXCEPT !.timestamp = t]),
         timeouts |-> [k \in DOMAIN rc.timeouts \cup {key} |->
                          IF k = key THEN id ELSE rc.timeouts[k]],
         timers |-> cleared \cup {[id |-> id, key |-> key, due |-> t + ExpiryMs]}]

\* RequestCacheSet with the size check off by one.
RequestCacheSet_OffByOne(rc, key, value, t) ==
    LET stored == RequestCacheStore(rc, key, value, t)
    IN  IF Len(stored.cache) > MaxSize + 1
        THEN RequestCacheDelete(stored, OldestKey(stored.cache))
        ELSE stored

\* RequestCache.set(key, value) at time t
RequestCacheSet(rc, key, value, t) ==
    LET stored == RequestCacheStore(rc, key, value, t)
    IN  IF Len(stored.cache) > MaxSize
        THEN RequestCacheDelete(stored, OldestKey(stored.cache))
        ELSE stored

\* RequestCache.get: the entry, or undefined
RequestCacheGet(rc, key) ==
    IF MapHas(rc.cache, key) THEN Some(MapGet(rc.cache, key)) ELSE Undefined

RC == [cache |-> cache, timeouts |-> timeouts, timers |-> timers]
SetRC(rc) ==
    /\ cache' = rc.cache
    /\ timeouts' = rc.timeouts
    /\ timers' = rc.timers

\* What lastRemoved records when the cache goes from before to after by
\* the operation by: one of the keys that are gone.
Removal(before, after, by) ==
    LET gone == MapKeys(before) \ MapKeys(after)
    IN  IF gone = {} THEN Undefined ELSE Some([key |-> CHOOSE k \in gone : TRUE, by |-> by])

\* requestCache.set(key, value) now
CacheSet(key, value) ==
    LET after == RequestCacheSet(RC, key, value, now)
    IN  /\ SetRC(after)
        /\ lastRemoved' = Removal(MapSet(cache, key, value), after.cache, "capacity")

\* The cache after requestCache.delete calls made by the callback by
CacheDelete(rc, by) ==
    /\ SetRC(rc)
    /\ lastRemoved' = IF MapKeys(rc.cache) = MapKeys(cache) THEN lastRemoved
                      ELSE Removal(cache, rc.cache, by)

(***************************************************************************)
(* requestProcessor: what a body yields under the path list paths.         *)
(***************************************************************************)
\* The forEach of processEventData and processMetadata: results after the
\* paths from the i-th on have been resolved against target.
\* The forEach with the test if (value) in place of value !== undefined.
RECURSIVE ExtractPaths_Truthy(_, _, _, _)
ExtractPaths_Truthy(results, paths, target, i) ==
    IF i > Len(paths) THEN results
    ELSE LET value == getNestedProperty(Some(target), paths[i])
         IN  ExtractPaths_Truthy(IF Truthy(value)
                                 THEN MapSet(results, paths[i], TheValue(value))
                                 ELSE results,
                                 paths, target, i + 1)

RECURSIVE ExtractPaths(_, _, _, _)
ExtractPaths(results, paths, target, i) ==
    IF i > Len(paths) THEN results
    ELSE LET value == getNestedProperty(Some(target), paths[i])
         IN  ExtractPaths(IF IsDefined(value)
                          THEN MapSet(results, paths[i], TheValue(value))
                          ELSE results,
                          paths, target, i + 1)

\* requestProcessor.sendResults: the message it builds
ResultMessage(results, url, requestInfo, fullXdm) ==
    [action |-> "displayResults",
     results |-> results,
     url |-> url,
     requestInfo |-> [method |-> requestInfo.method,
                      type |-> requestInfo.type,
                      statusCode |-> requestInfo.statusCode,
                      response |-> Undefined],
     fullXdm |-> fullXdm]

\* processEventData that hands the whole parsed body to sendResults as fullXdm.
processEventData_WholeBody(paths, jsonData, url, requestInfo) ==
    LET events == jsonData.v[<<"events">>].v
        first == IF Len(events) > 0 THEN Some(events[1]) ELSE Undefined
    IN  IF ~Truthy(first) THEN Undefined
        ELSE LET event == TheValue(first)
                 xdm == Prop(event, <<"xdm">>)
                 targetObject == IF Truthy(xdm) THEN TheValue(xdm) ELSE event
                 eventType == Prop(targetObject, <<"eventType">>)
                 synthetic == /\ ~\E i \in 1..Len(paths) : paths[i] = <<"eventType">>
                              /\ Truthy(eventType)
                 results == ExtractPaths(
                                IF synthetic
                                THEN <<[key |-> <<"eventType">>, value |-> TheValue(eventType)]>>
                                ELSE <<>>,
                                paths, targetObject, 1)
                 hasMatches ==
                     \/ synthetic
                     \/ \E i \in 1..Len(paths) :
                            IsDefined(getNestedProperty(Some(targetObject), paths[i]))
             IN  IF hasMatches
                 THEN Some(ResultMessage(results, url, requestInfo, jsonData))
                 ELSE Undefined

\* requestProcessor.processEventData: the message sent, or undefined
processEventData(paths, jsonData, url, requestInfo) ==
    LET events == jsonData.v[<<"events">>].v
        first == IF Len(events) > 0 THEN Some(events[1]) ELSE Undefined
    IN  IF ~Truthy(first) THEN Undefined
        ELSE LET event == TheValue(first)
                 xdm == Prop(event, <<"xdm">>)
                 targetObject == IF Truthy(xdm) THEN TheValue(xdm) ELSE event
                 eventType == Prop(targetObject, <<"eventType">>)
                 synthetic == /\ ~\E i \in 1..Len(paths) : paths[i] = <<"eventType">>
                              /\ Truthy(eventType)
                 results == ExtractPaths(
                                IF synthetic
                                THEN <<[key |-> <<"eventType">>, value |-> TheValue(eventType)]>>
                                ELSE <<>>,
                                paths, targetObject, 1)
                 hasMatches ==
                     \/ synthetic
                     \/ \E i \in 1..Len(paths) :
                            IsDefined(getNestedProperty(Some(targetObject), paths[i]))
             IN  IF hasMatches
                 THEN Some(ResultMessage(results, url, requestInfo, targetObject))
                 ELSE Undefined

\* processMetadata that sends whether or not a path matched.
processMetadata_SendsEmpty(paths, jsonData, url, requestInfo) ==
    Some(ResultMessage(ExtractPaths(<<>>, paths, jsonData, 1), url, requestInfo, jsonData))

\* requestProcessor.processMetadata: the message sent, or undefined
processMetadata(paths, jsonData, url, requestInfo) ==
    LET results == ExtractPaths(<<>>, paths, jsonData, 1)
        hasMatches == \E i \in 1..Len(paths) :
                          IsDefined(getNestedProperty(Some(jsonData), paths[i]))
    IN  IF hasMatches
        THEN Some(ResultMessage(results, url, requestInfo, jsonData))
        ELSE Undefined

\* processRequestData that takes the event branch for a non-empty events
\* list only, so that an empty list falls through to the metadata branch.
processRequestData_NonEmpty(paths, requestData, url, requestInfo) ==
    LET jsonData == safeParseJson(requestData)
    IN  IF ~Truthy(Some(jsonData)) THEN Undefined
        ELSE IF /\ Truthy(Prop(jsonData, <<"events">>)) /\ IsArray(Prop(jsonData, <<"events">>))
                /\ Len(TheValue(Prop(jsonData, <<"events">>)).v) > 0
        THEN processEventData(paths, jsonData, url, requestInfo)
        ELSE IF Truthy(Prop(jsonData, <<"meta">>)) \/ Truthy(Prop(jsonData, <<"requestId">>))
        THEN processMetadata(paths, jsonData, url, requestInfo)
        ELSE Undefined

\* processRequestData that sends a message with no results when the body
\* does not parse.
processRequestData_ReportsFailure(paths, requestData, url, requestInfo) ==
    LET jsonData == safeParseJson(requestData)
    IN  IF ~Truthy(Some(jsonData)) THEN Some(ResultMessage(<<>>, url, requestInfo, JNull))
        ELSE IF Truthy(Prop(jsonData, <<"events">>)) /\ IsArray(Prop(jsonData, <<"events">>))
        THEN processEventData(paths, jsonData, url, requestInfo)
        ELSE IF Truthy(Prop(jsonData, <<"meta">>)) \/ Truthy(Prop(jsonData, <<"requestId">>))
        THEN processMetadata(paths, jsonData, url, requestInfo)
        ELSE Undefined

\* requestProcessor.processRequestData after the counter is incremented:
\* the message sent, or undefined
processRequestData(paths, requestData, url, requestInfo) ==
    LET jsonData == safeParseJson(requestData)
    IN  IF ~Truthy(Some(jsonData)) THEN Undefined
        ELSE IF Truthy(Prop(jsonData, <<"events">>)) /\ IsArray(Prop(jsonData, <<"events">>))
        THEN processEventData(paths, jsonData, url, requestInfo)
        ELSE IF Truthy(Prop(jsonData, <<"meta">>)) \/ Truthy(Prop(jsonData, <<"requestId">>))
        THEN processMetadata(paths, jsonData, url, requestInfo)
        ELSE Undefined

(***************************************************************************)
(* DevToolsConnectionManager.                                              *)
(***************************************************************************)
\* The ports of conns whose postMessage throws.
Throwing(conns) == { p \in conns : ports[p].state = "closed" }

\* Broadcast without the try around postMessage: the first throw ends the
\* loop and reaches the catch of processRequestData.
Broadcast_NoCatch(conns, id) ==
    IF conns = {}
    THEN [connections |-> conns, delivered |-> {}, generic |-> TRUE]
    ELSE IF Throwing(conns) # {}
    THEN [connections |-> conns, delivered |-> {}, generic |-> FALSE]
    ELSE [connections |-> conns, delivered |-> conns, generic |-> FALSE]

\* Broadcast with the generic send made whatever the size of the set.
Broadcast_AlwaysGeneric(conns, id) ==
    [connections |-> conns \ Throwing(conns),
     delivered |-> conns \ Throwing(conns),
     generic |-> TRUE]

\* DevToolsConnectionManager.broadcast of message id: the connection set
\* after it, the ports postMessage handed the message to, and whether
\* chrome.runtime.sendMessage was called.
Broadcast(conns, id) ==
    IF conns = {}
    THEN [connections |-> conns, delivered |-> {}, generic |-> TRUE]
    ELSE [connections |-> conns \ Throwing(conns),
          delivered |-> conns \ Throwing(conns),
          generic |-> FALSE]

\* DevToolsConnectionManager.add
Add(conns, port, name) == IF name = "" THEN conns ELSE conns \cup {port}

(***************************************************************************)
(* Initial state: the module has just been evaluated; stateManager.init    *)
(* has asked for the stored values and its callback is pending.            *)
(***************************************************************************)
Init ==
    /\ now = 0
    /\ cache = <<>>
    /\ timeouts = <<>>
    /\ timers = {}
    /\ lastRemoved = Undefined
    /\ sweepDue = SweepIntervalMs
    /\ isListening = FALSE
    /\ targetPaths = <<>>
    /\ debugMode = FALSE
    /\ requestCounter = 0
    /\ storage \in InitialStorages
    /\ initDone = FALSE
    /\ connections = {}
    /\ ports = [p \in Ports |-> NoPort]
    /\ received = [p \in Ports |-> <<>>]
    /\ panelLoad = "none"
    /\ panelPage = "closed"
    /\ reloadedForCleanup = FALSE
    /\ reloads = 0
    /\ connectionAttempts = 0
    /\ backgroundPort = "undefined"
    /\ reconnectDelay = Undefined
    /\ statusText = ""
    /\ reconnects = 0
    /\ genericLog = <<>>
    /\ tabQueries = {}
    /\ activeTab = Undefined
    /\ tabReceived = [t \in Tabs |-> <<>>]
    /\ lastDispatch = Undefined
    /\ fault = FALSE
    /\ responses = <<>>

(***************************************************************************)
(* stateManager and the control messages.                                  *)
(***************************************************************************)
\* savePaths that writes the list to storage as it was given.
savePaths_Raw(paths) ==
    /\ targetPaths' = sanitizeTargetPaths(paths)
    /\ storage' = [storage EXCEPT !.targetPaths = Some(paths.v)]

\* stateManager.savePaths
savePaths(paths) ==
    /\ targetPaths' = sanitizeTargetPaths(paths)
    /\ storage' = [storage EXCEPT !.targetPaths = Some(sanitizeTargetPaths(paths))]

\* The chrome.storage.local.get callback of stateManager.init
StateManagerInit ==
    /\ ~initDone
    /\ initDone' = TRUE
    /\ isListening' = IF IsDefined(storage.isListening)
                      THEN TheValue(storage.isListening) ELSE isListening
    /\ debugMode' = IF IsDefined(storage.debugMode)
                    THEN TheValue(storage.debugMode) ELSE debugMode
    /\ IF IsDefined(storage.targetPaths)
       THEN savePaths(JArr(sanitizeTargetPaths(JArr(TheValue(storage.targetPaths)))))
       ELSE savePaths(JArr(getDefaultPaths))
    /\ UNCHANGED <<timeVars, panelVars, cacheVars, requestCounter, portVars, tabVars, outVars>>

\* chrome.runtime.onInstalled
OnInstalled ==
    /\ storage' = [storage EXCEPT !.targetPaths = Some(getDefaultPaths),
                                  !.isListening = Some(TRUE)]
    /\ UNCHANGED <<timeVars, panelVars, cacheVars, stateVars, initDone, portVars, tabVars, outVars>>

\* stateManager.setListening; value is message.value, which may be
\* undefined
setListening(value) ==
    /\ isListening' = Truthy(value)
    /\ storage' = [storage EXCEPT !.isListening = Some(Truthy(value))]

\* chrome.runtime.onMessage, action 'toggleListening'
OnMessageToggleListening(value) ==
    /\ setListening(value)
    /\ responses' = <<StatusResponse("success")>>
    /\ UNCHANGED <<timeVars, panelVars, cacheVars, targetPaths, debugMode, requestCounter,
                   initDone, portVars, tabVars, genericLog, lastDispatch, fault>>

\* chrome.runtime.onMessage, action 'updatePaths'
OnMessageUpdatePaths(paths) ==
    /\ savePaths(paths)
    /\ responses' = <<[StatusResponse("success") EXCEPT
                          !.sanitizedPaths = Some(sanitizeTargetPaths(paths))]>>
    /\ UNCHANGED <<timeVars, panelVars, cacheVars, isListening, debugMode, requestCounter,
                   initDone, portVars, tabVars, genericLog, lastDispatch, fault>>

\* OnMessageGetStatus whose getState copies the state as it is.
OnMessageGetStatus_Unsanitized ==
    /\ responses' = <<[NoFields EXCEPT !.isListening = Some(isListening),
                                       !.targetPaths = Some(targetPaths),
                                       !.debugMode = Some(debugMode),
                                       !.requestCounter = Some(requestCounter)]>>
    /\ UNCHANGED <<timeVars, panelVars, cacheVars, stateVars, storageVars, portVars, tabVars,
                   genericLog, lastDispatch, fault>>

\* chrome.runtime.onMessage, action 'getStatus': stateManager.getState
OnMessageGetStatus ==
    /\ targetPaths' = sanitizeTargetPaths(JArr(targetPaths))
    /\ responses' = <<[NoFields EXCEPT !.isListening = Some(isListening),
                                       !.targetPaths = Some(targetPaths'),
                                       !.debugMode = Some(debugMode),
                                       !.requestCounter = Some(requestCounter)]>>
    /\ UNCHANGED <<timeVars, panelVars, cacheVars, isListening, debugMode, requestCounter,
                   storageVars, portVars, tabVars, genericLog, lastDispatch, fault>>

\* setDebugMode that sets the flag in memory only.
setDebugMode_NoPersist(value) ==
    /\ debugMode' = Truthy(value)
    /\ storage' = storage

\* stateManager.setDebugMode; value is message.value, which may be
\* undefined
setDebugMode(value) ==
    /\ debugMode' = Truthy(value)
    /\ storage' = [storage EXCEPT !.debugMode = Some(Truthy(value))]

\* chrome.runtime.onMessage, action 'toggleDebug'
OnMessageToggleDebug(value) ==
    /\ setDebugMode(value)
    /\ responses' = <<StatusResponse("success")>>
    /\ UNCHANGED <<timeVars, panelVars, cacheVars, isListening, targetPaths, requestCounter,
                   initDone, portVars, tabVars, genericLog, lastDispatch, fault>>

\* OnMessageOther that does not answer an action it does not know.
OnMessageOther_NoReply(message) ==
    /\ responses' =
          IF ~IsDefined(message) \/ TheValue(message).action \in {Undefined, Some("")}
          THEN <<ErrorResponse("Invalid message format")>>
          ELSE IF TheValue(message).action = Some("devtools-init")
          THEN <<StatusResponse("success")>>
          ELSE <<>>
    /\ UNCHANGED <<timeVars, panelVars, cacheVars, stateVars, storageVars, portVars, tabVars,
                   genericLog, lastDispatch, fault>>

\* chrome.runtime.onMessage for a message without an action, and for the
\* actions 'devtools-init' and default of the switch
OnMessageOther(message) ==
    /\ responses' =
          IF ~IsDefined(message) \/ TheValue(message).action \in {Undefined, Some("")}
          THEN <<ErrorResponse("Invalid message format")>>
          ELSE IF TheValue(message).action = Some("devtools-init")
          THEN <<StatusResponse("success")>>
          ELSE <<ErrorResponse("Unknown action")>>
    /\ UNCHANGED <<timeVars, panelVars, cacheVars, stateVars, storageVars, portVars, tabVars,
                   genericLog, lastDispatch, fault>>

(***************************************************************************)
(* Ports.                                                                  *)
(***************************************************************************)
\* OnConnect that hands the latest message to the port that connects.
OnConnect_Replay(p, name) ==
    /\ ports[p].state = "none"
    /\ ports' = [ports EXCEPT ![p] = [name |-> name, state |-> "open"]]
    /\ received' = [received EXCEPT ![p] =
                       IF name = "devtools-panel" /\ IsDefined(lastDispatch)
                       THEN <<TheValue(lastDispatch).id>> ELSE <<>>]
    /\ connections' = IF name = "devtools-panel" THEN Add(connections, p, name)
                      ELSE connections
    /\ UNCHANGED <<timeVars, panelVars, cacheVars, stateVars, storageVars, panelLoad, tabVars, outVars>>

\* chrome.runtime.onConnect: a new port connects under a name; no message
\* has been posted to it.
OnConnect(p, name) ==
    /\ ports[p].state = "none"
    /\ ports' = [ports EXCEPT ![p] = [name |-> name, state |-> "open"]]
    /\ received' = [received EXCEPT ![p] = <<>>]
    /\ connections' = IF name = "devtools-panel" THEN Add(connections, p, name)
                      ELSE connections
    /\ UNCHANGED <<timeVars, panelVars, cacheVars, stateVars, storageVars, panelLoad, tabVars, outVars>>

\* The other end of a port goes away: from now on postMessage throws.
PortClose(p) ==
    /\ ports[p].state = "open"
    /\ ports' = [ports EXCEPT ![p].state = "closed"]
    /\ UNCHANGED <<timeVars, panelVars, cacheVars, stateVars, storageVars, connections, received,
                   panelLoad, tabVars, outVars>>

\* port.onDisconnect: the listener that add registered (a port under
\* another name has none and just goes)
OnDisconnect(p) ==
    /\ ports[p].state = "closed"
    /\ connections' = connections \ {p}
    /\ ports' = [ports EXCEPT ![p] = NoPort]
    /\ UNCHANGED <<timeVars, panelVars, cacheVars, stateVars, storageVars, received, panelLoad,
                   tabVars, outVars>>

(***************************************************************************)
(* The devtools panel page (src/panel.js).                                 *)
(***************************************************************************)
\* Math.pow(2, n)
RECURSIVE Pow(_, _)
Pow(x, n) == IF n = 0 THEN 1 ELSE x * Pow(x, n - 1)

\* What chrome.runtime.connect does: it hands out a port, or it throws.
ConnectOutcomes == {"connected", "throws"}

\* The globals of the panel script as a page load leaves them.
PanelScriptStart ==
    /\ connectionAttempts' = 0
    /\ backgroundPort' = "undefined"
    /\ reconnectDelay' = Undefined
    /\ statusText' = ""
    /\ reconnects' = 0

\* The devtools panel is opened: the page is evaluated, forceDefaultPaths
\* has called chrome.storage.local.clear and DOMContentLoaded has called
\* chrome.storage.local.get; neither has been carried out.
PanelOpen ==
    /\ panelPage = "closed"
    /\ panelPage' = "loading"
    /\ panelLoad' = "none"
    /\ reloads' = 0
    /\ PanelScriptStart
    /\ UNCHANGED <<timeVars, cacheVars, stateVars, storageVars, reloadedForCleanup,
                   connections, ports, received, tabVars, outVars>>

\* The chrome.storage.local.clear of forceDefaultPaths is carried out.
PanelForceDefaultPaths ==
    /\ panelPage # "closed"
    /\ panelLoad = "none"
    /\ panelLoad' = "cleared"
    /\ storage' = EmptyStorage
    /\ reloadedForCleanup' = FALSE
    /\ UNCHANGED <<timeVars, cacheVars, stateVars, initDone, connections, ports, received,
                   panelPage, reloads, connectionAttempts, backgroundPort, reconnectDelay,
                   statusText, reconnects, tabVars, outVars>>

\* The callback of the clear: chrome.storage.local.set of the forced
\* defaults (its own callback sends updatePaths with the default paths to
\* the background script).
PanelClearCallback ==
    /\ panelLoad = "cleared"
    /\ panelLoad' = "loaded"
    /\ storage' = [isListening |-> Some(FALSE), debugMode |-> Some(TRUE),
                   targetPaths |-> Some(getDefaultPaths)]
    /\ UNCHANGED <<timeVars, panelVars, cacheVars, stateVars, initDone, connections, ports, received,
                   tabVars, outVars>>

\* The chrome.storage.local.get(['reloadedForCleanup']) of the
\* DOMContentLoaded listener is carried out.
PanelFlagRead ==
    /\ panelPage = "loading"
    /\ panelPage' = IF reloadedForCleanup THEN "found" ELSE "missing"
    /\ UNCHANGED <<timeVars, cacheVars, stateVars, storageVars, portVars, reloadedForCleanup,
                   reloads, connectionAttempts, backgroundPort, reconnectDelay, statusText,
                   reconnects, tabVars, outVars>>

\* connectToBackgroundPage
connectToBackgroundPage(outcome) ==
    /\ backgroundPort' = IF outcome = "connected" THEN "port" ELSE backgroundPort
    /\ connectionAttempts' = IF outcome = "connected" THEN 0 ELSE connectionAttempts
    /\ statusText' = IF outcome = "connected" THEN statusText
                     ELSE "Error connecting to background. Please refresh DevTools panel."

\* The callback of the get of the DOMContentLoaded listener: without the
\* flag it sets the flag; with the flag it stores the default paths (and
\* sends them to the background script), and calls initializeUI and
\* connectToBackgroundPage.  The storage calls it makes come after the
\* clear the page called at its start.
PanelFlagCallback(outcome) ==
    /\ panelPage \in {"missing", "found"}
    /\ panelLoad # "none"
    /\ IF panelPage = "missing"
       THEN /\ panelPage' = "flagging"
            /\ reloadedForCleanup' = TRUE
            /\ UNCHANGED <<storage, connectionAttempts, backgroundPort, statusText>>
       ELSE /\ panelPage' = "ready"
            /\ storage' = [storage EXCEPT !.targetPaths = Some(getDefaultPaths)]
            /\ connectToBackgroundPage(outcome)
            /\ UNCHANGED reloadedForCleanup
    /\ UNCHANGED <<timeVars, cacheVars, stateVars, initDone, portVars, reloads, reconnectDelay,
                   reconnects, tabVars, outVars>>

\* The callback of the set of the flag: location.reload().  The page is
\* evaluated again.
PanelReload ==
    /\ panelPage = "flagging"
    /\ reloads < MaxReloads
    /\ panelPage' = "loading"
    /\ panelLoad' = "none"
    /\ reloads' = reloads + 1
    /\ PanelScriptStart
    /\ UNCHANGED <<timeVars, cacheVars, stateVars, storageVars, reloadedForCleanup,
                   connections, ports, received, tabVars, outVars>>

\* The onDisconnect listener of backgroundPort
PanelPortDisconnect ==
    /\ backgroundPort = "port"
    /\ backgroundPort' = "null"
    /\ IF connectionAttempts < MAX_RECONNECT_ATTEMPTS
       THEN /\ connectionAttempts' = connectionAttempts + 1
            /\ reconnectDelay' = Some(Pow(2, connectionAttempts'))
            /\ UNCHANGED statusText
       ELSE /\ statusText' = "Connection lost. Please refresh DevTools panel."
            /\ UNCHANGED <<connectionAttempts, reconnectDelay>>
    /\ UNCHANGED <<timeVars, cacheVars, stateVars, storageVars, portVars, panelPage,
                   reloadedForCleanup, reloads, reconnects, tabVars, outVars>>

\* The setTimeout(connectToBackgroundPage, delay) of the onDisconnect
\* listener falls due.
PanelReconnectTimer(outcome) ==
    /\ IsDefined(reconnectDelay)
    /\ reconnects < MaxReconnects
    /\ reconnectDelay' = Undefined
    /\ reconnects' = reconnects + 1
    /\ connectToBackgroundPage(outcome)
    /\ UNCHANGED <<timeVars, cacheVars, stateVars, storageVars, portVars, panelPage,
                   reloadedForCleanup, reloads, tabVars, outVars>>

\* The devtools window is closed.
PanelUnload ==
    /\ panelLoad = "loaded"
    /\ panelLoad' = "none"
    /\ panelPage' = "closed"
    /\ reloads' = 0
    /\ PanelScriptStart
    /\ UNCHANGED <<timeVars, cacheVars, stateVars, storageVars, reloadedForCleanup,
                   connections, ports, received, tabVars, outVars>>

(***************************************************************************)
(* The active tab.                                                         *)
(***************************************************************************)
\* The user focuses a tab, or a window without tabs.
FocusTab(t) ==
    /\ activeTab' = t
    /\ activeTab' # activeTab
    /\ UNCHANGED <<timeVars, panelVars, cacheVars, stateVars, storageVars, portVars, tabQueries,
                   tabReceived, outVars>>

\* The chrome.tabs.query callback of sendToContentScript for query q;
\* outcome is what chrome.tabs.sendMessage does if it is called
TabsQueryCallback(q, outcome) ==
    /\ q \in tabQueries
    /\ tabQueries' = tabQueries \ {q}
    /\ tabReceived' = IF IsDefined(q.tab) /\ outcome = "delivered"
                      THEN [tabReceived EXCEPT ![TheValue(q.tab)] = Append(@, q.id)]
                      ELSE tabReceived
    /\ UNCHANGED <<timeVars, panelVars, cacheVars, stateVars, storageVars, portVars, activeTab, outVars>>

(***************************************************************************)
(* Network hooks.                                                          *)
(***************************************************************************)
\* chrome.webRequest.onBeforeSendHeaders
OnBeforeSendHeaders(details) ==
    /\ UNCHANGED vars

\* OnSendHeaders without the test of state.isListening.
OnSendHeaders_NoSwitch(details) ==
    /\ IF isAdobeWebSdkUrl(JStr(details.url))
       THEN CacheSet(details.requestId,
                     [url |-> details.url, method |-> details.method,
                      type |-> details.type, timestamp |-> now,
                      requestId |-> details.requestId, statusCode |-> Undefined])
       ELSE UNCHANGED cacheVars
    /\ UNCHANGED <<timeVars, panelVars, stateVars, storageVars, portVars, tabVars, outVars>>

\* chrome.webRequest.onSendHeaders
OnSendHeaders(details) ==
    /\ IF isListening /\ isAdobeWebSdkUrl(JStr(details.url))
       THEN CacheSet(details.requestId,
                     [url |-> details.url, method |-> details.method,
                      type |-> details.type, timestamp |-> now,
                      requestId |-> details.requestId, statusCode |-> Undefined])
       ELSE UNCHANGED cacheVars
    /\ UNCHANGED <<timeVars, panelVars, stateVars, storageVars, portVars, tabVars, outVars>>

\* sendToContentScript that keeps the tab of the query before, if one is
\* pending, instead of asking again.
QueryTabs_Stale(id, tab) ==
    IF tabQueries = {} THEN [id |-> id, tab |-> tab]
    ELSE [id |-> id, tab |-> (CHOOSE q \in tabQueries : TRUE).tab]

\* chrome.tabs.query({active: true, currentWindow: true}) called for
\* message id while tab is focused: the query and the tab it finds.
QueryTabs(id, tab) == [id |-> id, tab |-> tab]

\* requestProcessor.sendResults of message, the id-th request processed:
\* sendToContentScript, then devToolsManager.broadcast
sendResults(id, message, outcome) ==
    LET b == Broadcast(connections, id)
    IN  /\ lastDispatch' = Some([id |-> id, message |-> message])
        /\ tabQueries' = tabQueries \cup {QueryTabs(id, activeTab)}
        /\ connections' = b.connections
        /\ received' = [p \in Ports |->
                           IF p \in b.delivered THEN Append(received[p], id) ELSE received[p]]
        /\ genericLog' = IF b.generic
                         THEN Append(genericLog, [id |-> id, outcome |-> outcome])
                         ELSE genericLog
        /\ UNCHANGED <<ports, panelLoad, activeTab, tabReceived, fault, responses>>

\* RequestInfoOf without the fallback object: processRequestData's default
\* parameter {} stands in, and method and type read as undefined.
RequestInfoOf_NoFallback(details) ==
    LET cached == RequestCacheGet(RC, details.requestId)
    IN  IF IsDefined(cached) THEN TheValue(cached)
        ELSE [url |-> details.url, method |-> "undefined", type |-> "undefined",
              requestId |-> details.requestId, statusCode |-> Undefined]

\* RequestInfoOf that takes the entry written last, whatever its id.
RequestInfoOf_LastEntry(details) ==
    IF Len(cache) > 0 THEN cache[Len(cache)].value
    ELSE [url |-> details.url, method |-> details.method, type |-> details.type,
          requestId |-> details.requestId, statusCode |-> Undefined]

\* The requestInfo onBeforeRequest hands to processRequestData.
RequestInfoOf(details) ==
    LET cached == RequestCacheGet(RC, details.requestId)
    IN  IF IsDefined(cached) THEN TheValue(cached)
        ELSE [url |-> details.url, method |-> details.method, type |-> details.type,
              requestId |-> details.requestId, statusCode |-> Undefined]

\* OnBeforeRequest that counts a request only when it sends its results.
OnBeforeRequest_CountsSent(details, requestBody, outcome) ==
    /\ requestCounter < MaxRequests
    /\ IF /\ isListening /\ isAdobeWebSdkUrl(JStr(details.url))
          /\ details.method = "POST" /\ IsDefined(requestBody)
          /\ RequestDataOf(TheValue(requestBody)).kind # "empty"
       THEN LET message == processRequestData(targetPaths,
                               RequestDataOf(TheValue(requestBody)),
                               details.url, RequestInfoOf(details))
            IN  IF IsDefined(message)
                THEN /\ requestCounter' = requestCounter + 1
                     /\ sendResults(requestCounter + 1, TheValue(message), outcome)
                ELSE UNCHANGED <<requestCounter, portVars, tabVars, outVars>>
       ELSE UNCHANGED <<requestCounter, portVars, tabVars, outVars>>
    /\ UNCHANGED <<timeVars, panelVars, cacheVars, isListening, targetPaths, debugMode, storageVars>>

\* chrome.webRequest.onBeforeRequest; outcome is what chrome.runtime.sendMessage
\* does if it is called
OnBeforeRequest(details, requestBody, outcome) ==
    /\ requestCounter < MaxRequests
    /\ IF /\ isListening /\ isAdobeWebSdkUrl(JStr(details.url))
          /\ details.method = "POST" /\ IsDefined(requestBody)
          /\ RequestDataOf(TheValue(requestBody)).kind # "empty"
       THEN LET message == processRequestData(targetPaths,
                               RequestDataOf(TheValue(requestBody)),
                               details.url, RequestInfoOf(details))
            IN  /\ requestCounter' = requestCounter + 1
                /\ IF IsDefined(message)
                   THEN sendResults(requestCounter + 1, TheValue(message), outcome)
                   ELSE UNCHANGED <<portVars, tabVars, outVars>>
       ELSE UNCHANGED <<requestCounter, portVars, tabVars, outVars>>
    /\ UNCHANGED <<timeVars, panelVars, cacheVars, isListening, targetPaths, debugMode, storageVars>>

\* UpdateStatusCode that takes the entry of the id for the check of the
\* url: the check made when the entry was written is remembered.
UpdateStatusCode_GateByEntry(details, statusCode) ==
    LET requestInfo == RequestCacheGet(RC, details.requestId)
    IN  IF isListening /\ IsDefined(requestInfo)
        THEN CacheSet(details.requestId,
                      [TheValue(requestInfo) EXCEPT !.statusCode = Some(statusCode)])
        ELSE UNCHANGED cacheVars

\* UpdateStatusCode that starts an entry when it finds none.
UpdateStatusCode_Creates(details, statusCode) ==
    LET requestInfo == RequestCacheGet(RC, details.requestId)
    IN  IF isListening /\ isAdobeWebSdkUrl(JStr(details.url))
        THEN CacheSet(details.requestId,
                      [IF IsDefined(requestInfo) THEN TheValue(requestInfo)
                       ELSE [url |-> details.url, method |-> details.method,
                             type |-> details.type, timestamp |-> now,
                             requestId |-> details.requestId, statusCode |-> Undefined]
                       EXCEPT !.statusCode = Some(statusCode)])
        ELSE UNCHANGED cacheVars

\* UpdateStatusCode that keeps a status code the entry already has.
UpdateStatusCode_KeepsFirst(details, statusCode) ==
    LET requestInfo == RequestCacheGet(RC, details.requestId)
    IN  IF isListening /\ isAdobeWebSdkUrl(JStr(details.url)) /\ IsDefined(requestInfo)
        THEN CacheSet(details.requestId,
                      IF IsDefined(TheValue(requestInfo).statusCode) THEN TheValue(requestInfo)
                      ELSE [TheValue(requestInfo) EXCEPT !.statusCode = Some(statusCode)])
        ELSE UNCHANGED cacheVars

\* The body of onHeadersReceived and of onCompleted.
UpdateStatusCode(details, statusCode) ==
    LET requestInfo == RequestCacheGet(RC, details.requestId)
    IN  IF isListening /\ isAdobeWebSdkUrl(JStr(details.url)) /\ IsDefined(requestInfo)
        THEN CacheSet(details.requestId,
                      [TheValue(requestInfo) EXCEPT !.statusCode = Some(statusCode)])
        ELSE UNCHANGED cacheVars

\* chrome.webRequest.onHeadersReceived
OnHeadersReceived(details, statusCode) ==
    /\ UpdateStatusCode(details, statusCode)
    /\ UNCHANGED <<timeVars, panelVars, stateVars, storageVars, portVars, tabVars, outVars>>

\* OnCompleted that sends the entry's results again once the status code is in.
OnCompleted_Resend(details, statusCode) ==
    /\ UpdateStatusCode(details, statusCode)
    /\ IF isListening /\ isAdobeWebSdkUrl(JStr(details.url)) /\ IsDefined(lastDispatch)
       THEN sendResults(TheValue(lastDispatch).id, TheValue(lastDispatch).message, "rejected")
       ELSE UNCHANGED <<portVars, tabVars, outVars>>
    /\ UNCHANGED <<timeVars, panelVars, stateVars, storageVars>>

\* OnCompleted that sends the latest message again with the status code in
\* its requestInfo.
OnCompleted_SendsStatus(details, statusCode) ==
    /\ UpdateStatusCode(details, statusCode)
    /\ IF isListening /\ isAdobeWebSdkUrl(JStr(details.url)) /\ IsDefined(lastDispatch)
       THEN sendResults(TheValue(lastDispatch).id,
                        [TheValue(lastDispatch).message EXCEPT
                            !.requestInfo.statusCode = Some(statusCode)],
                        "rejected")
       ELSE UNCHANGED <<portVars, tabVars, outVars>>
    /\ UNCHANGED <<timeVars, panelVars, stateVars, storageVars>>

\* chrome.webRequest.onCompleted
OnCompleted(details, statusCode) ==
    /\ UpdateStatusCode(details, statusCode)
    /\ UNCHANGED <<timeVars, panelVars, stateVars, storageVars, portVars, tabVars, outVars>>

(***************************************************************************)
(* Timers and the clock.                                                   *)
(***************************************************************************)
\* The callback of the setTimeout of RequestCache.set: () => this.delete(key)
ExpiryTimeout(tm) ==
    /\ tm \in timers
    /\ tm.due <= now
    /\ CacheDelete(RequestCacheDelete([RC EXCEPT !.timers = timers \ {tm}], tm.key), "timeout")
    /\ UNCHANGED <<timeVars, panelVars, stateVars, storageVars, portVars, tabVars, outVars>>

\* ExpiredRequests that collects an entry from the age of five minutes on.
ExpiredRequests_FromAgeOn == { k \in MapKeys(cache) : now - MapGet(cache, k).timestamp >= SweepAgeMs }

\* The keys the sweep collects.
ExpiredRequests == { k \in MapKeys(cache) : now - MapGet(cache, k).timestamp > SweepAgeMs }

RECURSIVE DeleteAll(_, _)
DeleteAll(rc, keys) ==
    IF keys = {} THEN rc
    ELSE LET k == CHOOSE k \in keys : TRUE
         IN  DeleteAll(RequestCacheDelete(rc, k), keys \ {k})

\* The setInterval callback
Sweep ==
    /\ sweepDue <= now
    /\ CacheDelete(DeleteAll(RC, ExpiredRequests), "sweep")
    /\ sweepDue' = sweepDue + SweepIntervalMs
    /\ UNCHANGED <<now, panelVars, stateVars, storageVars, portVars, tabVars, outVars>>

\* A minute passes; no callback is due.
Tick ==
    /\ now < MaxTime
    /\ sweepDue > now
    /\ \A tm \in timers : tm.due > now
    /\ now' = now + 1
    /\ UNCHANGED <<sweepDue, panelVars, cacheVars, stateVars, storageVars, portVars, tabVars, outVars>>

\* A minute passes while a callback is due: the event loop runs a timer
\* callback no sooner than its delay, and may run it later.
LateTick ==
    /\ now < MaxTime
    /\ sweepDue <= now \/ \E tm \in timers : tm.due <= now
    /\ now' = now + 1
    /\ UNCHANGED <<sweepDue, panelVars, cacheVars, stateVars, storageVars, portVars, tabVars, outVars>>

(***************************************************************************)
(* Specifications.  The steps take the sets their inputs are drawn from.   *)
(***************************************************************************)
Listening ==
    \E v \in BOOLEAN : OnMessageToggleListening(Some(JBool(v)))

Paths(inputs) ==
    \E paths \in inputs : OnMessageUpdatePaths(paths)

ConfigStep ==
    \/ StateManagerInit
    \/ OnInstalled
    \/ Listening
    \/ Paths(PathInputs)
    \/ OnMessageGetStatus
    \/ \E v \in ToggleValues : OnMessageToggleDebug(v)
    \/ \E m \in OtherMessages : OnMessageOther(m)

CacheHookStep(ids, codes) ==
    \/ \E d \in DetailsOf(ids) : OnSendHeaders(d)
    \/ \E d \in DetailsOf(ids), s \in codes : OnHeadersReceived(d, s)
    \/ \E d \in DetailsOf(ids), s \in codes : OnCompleted(d, s)

ExtractStep(ids, bodies, outcomes) ==
    \/ \E d \in DetailsOf(ids) : OnBeforeSendHeaders(d)
    \/ \E d \in DetailsOf(ids), b \in bodies, o \in outcomes : OnBeforeRequest(d, b, o)

TimeStep ==
    \/ \E tm \in timers : ExpiryTimeout(tm)
    \/ Sweep
    \/ Tick

PortStep ==
    \/ \E p \in Ports, n \in PortNames : OnConnect(p, n)
    \/ \E p \in Ports : PortClose(p)
    \/ \E p \in Ports : OnDisconnect(p)

PanelStep ==
    \/ PanelOpen
    \/ PanelForceDefaultPaths
    \/ PanelClearCallback
    \/ PanelFlagRead
    \/ \E o \in ConnectOutcomes : PanelFlagCallback(o)
    \/ PanelReload
    \/ PanelPortDisconnect
    \/ \E o \in ConnectOutcomes : PanelReconnectTimer(o)
    \/ PanelUnload

TabStep ==
    \/ \E t \in {Undefined} \cup { Some(x) : x \in Tabs } : FocusTab(t)
    \/ \E q \in tabQueries, o \in TabOutcomes : TabsQueryCallback(q, o)

\* Every listener of the background script.
Next ==
    \/ ConfigStep
    \/ CacheHookStep(RequestIds, StatusCodes)
    \/ ExtractStep(RequestIds, RequestBodies, GenericOutcomes)
    \/ TimeStep
    \/ LateTick
    \/ PortStep
    \/ PanelStep
    \/ TabStep
Spec == Init /\ [][Next]_vars

\* A fresh profile: nothing is stored yet.
InitFresh == Init /\ storage = EmptyStorage

\* The correlation cache under the clock: the listening switch, the hooks
\* that write the cache, the timers and the sweep.
NextCache ==
    \/ Listening
    \/ CacheHookStep(RequestIds, {200})
    \/ TimeStep
SpecCache == InitFresh /\ [][NextCache]_vars

\* The five hooks with the clock stopped: the listening switch, the startup
\* load, the hooks that write the cache and the hook that extracts.
NextHooks ==
    \/ Listening
    \/ StateManagerInit
    \/ CacheHookStep(RequestIds, StatusCodes)
    \/ ExtractStep(RequestIds, RequestBodies, {"rejected"})
SpecHooks == InitFresh /\ [][NextHooks]_vars

\* The fan-out with the clock stopped: the listening switch, the ports,
\* the hooks of request r1 and the extracting hook of r1 and r2.
NextHub ==
    \/ Listening
    \/ PortStep
    \/ CacheHookStep({"r1"}, {200})
    \/ ExtractStep({"r1", "r2"}, {Some(RawBody(JsonText(EventBody))), Some(RawBody(GarbageText))},
                   GenericOutcomes)
SpecHub == InitFresh /\ [][NextHub]_vars

\* The two channels with the clock stopped: the listening switch, the
\* tabs, one panel and the extracting hook of request r1.
NextTabs ==
    \/ Listening
    \/ TabStep
    \/ \E p \in {"p1"}, n \in {"devtools-panel"} : OnConnect(p, n)
    \/ \E p \in {"p1"} : PortClose(p)
    \/ \E p \in {"p1"} : OnDisconnect(p)
    \/ \E d \in DetailsOf({"r1"}), o \in {"rejected"} :
          OnBeforeRequest(d, Some(RawBody(JsonText(EventBody))), o)
SpecTabs == InitFresh /\ [][NextTabs]_vars

\* Extraction with the clock stopped: the listening switch, the startup
\* load, the path list and the extracting hook of request r1 with a body
\* of every shape.
NextExtract ==
    \/ Listening
    \/ StateManagerInit
    \/ Paths({JArr(<<RequestIdPath>>)})
    \/ \E d \in DetailsOf({"r1"}), b \in ShapedBodies : OnBeforeRequest(d, b, "rejected")
SpecExtract == InitFresh /\ [][NextExtract]_vars

\* The settings: the startup load from a fresh or a used profile, the
\* install handler and the control messages.
NextSettings == ConfigStep
SpecSettings == Init /\ [][NextSettings]_vars

\* The status hooks under the clock: the listening switch, the hooks of
\* requests r1 and r2 that write the cache, with both status codes, the
\* timers and the sweep.
NextStatus ==
    \/ Listening
    \/ CacheHookStep({"r1", "r2"}, StatusCodes)
    \/ TimeStep
SpecStatus == InitFresh /\ [][NextStatus]_vars

\* Two requests interleaved, with the clock stopped: the listening switch
\* and the hooks of the two requests in any order.
NextInterleave ==
    \/ Listening
    \/ \E d \in TwoRequests : OnBeforeSendHeaders(d)
    \/ \E d \in TwoRequests : OnSendHeaders(d)
    \/ \E d \in TwoRequests : OnBeforeRequest(d, Some(RawBody(JsonText(EventBody))), "rejected")
    \/ \E d \in TwoRequests, s \in StatusCodes : OnHeadersReceived(d, s)
    \/ \E d \in TwoRequests, s \in StatusCodes : OnCompleted(d, s)
SpecInterleave == InitFresh /\ [][NextInterleave]_vars

\* The gate of the hooks with the clock stopped: the listening switch and
\* the five hooks of requests r1 and r2, each called with a target url or
\* with another url.
NextGate ==
    \/ Listening
    \/ CacheHookStep({"r1", "r2"}, StatusCodes)
    \/ ExtractStep({"r1", "r2"}, {Some(RawBody(JsonText(EventBody)))}, {"rejected"})
SpecGate == InitFresh /\ [][NextGate]_vars

\* The correlation cache under a clock whose callbacks may run late: the
\* listening switch, the hooks of requests r1 and r2 that write the cache,
\* the timers, the sweep and the minutes.
NextLate ==
    \/ Listening
    \/ CacheHookStep({"r1", "r2"}, {200})
    \/ TimeStep
    \/ LateTick
SpecLate == InitFresh /\ [][NextLate]_vars

\* The listening switch under the clock: the switch, the five hooks of
\* request r1, the timers and the sweep, and one panel.
NextSwitch ==
    \/ Listening
    \/ CacheHookStep({"r1"}, {200})
    \/ ExtractStep({"r1"}, {Some(RawBody(JsonText(EventBody)))}, {"rejected"})
    \/ TimeStep
    \/ \E p \in {"p1"}, n \in {"devtools-panel"} : OnConnect(p, n)
SpecSwitch == InitFresh /\ [][NextSwitch]_vars

\* One request whose hooks fire in the order (b), (c), (d), (e), its id
\* not used again, with the clock stopped: the listening switch, the
\* viewers (one panel and the tabs) and the hooks of request r1.  The
\* request counter tells whether (c) has processed the request: (b) and
\* (c) come before, (d) and (e) after.  A run in which (c) comes while
\* listening is off is not followed further: nothing is dispatched in it.
NextOrder ==
    \/ Listening
    \/ \E p \in {"p1"}, n \in {"devtools-panel"} : OnConnect(p, n)
    \/ TabStep
    \/ \E d \in DetailsOf({"r1"}) :
          /\ requestCounter = 0
          /\ ~MapHas(cache, d.requestId)
          /\ OnSendHeaders(d)
    \/ \E d \in DetailsOf({"r1"}) :
          /\ requestCounter = 0
          /\ OnBeforeRequest(d, Some(RawBody(JsonText(EventBody))), "rejected")
    \/ \E d \in DetailsOf({"r1"}), s \in StatusCodes :
          /\ requestCounter = 1
          /\ OnHeadersReceived(d, s)
    \/ \E d \in DetailsOf({"r1"}), s \in StatusCodes :
          /\ requestCounter = 1
          /\ OnCompleted(d, s)
SpecOrder == InitFresh /\ [][NextOrder]_vars

\* The request counter under the clock: the listening switch, getStatus,
\* the hooks of request r1 that write the cache, hook (c) of requests r1
\* (POST) and r3 (GET) with a body of every kind, the timers and the
\* sweep.
NextCounter ==
    \/ Listening
    \/ OnMessageGetStatus
    \/ CacheHookStep({"r1"}, {200})
    \/ ExtractStep({"r1", "r3"}, RequestBodies, {"rejected"})
    \/ TimeStep
SpecCounter == InitFresh /\ [][NextCounter]_vars

\* The settings and the devtools panel page: the startup load from a fresh
\* or a used profile, the install handler, the control messages and the
\* load of the panel page.
NextPanel ==
    \/ ConfigStep
    \/ PanelOpen
    \/ PanelForceDefaultPaths
    \/ PanelClearCallback
    \/ PanelUnload
SpecPanel == Init /\ [][NextPanel]_vars

\* The devtools panel page on a fresh profile: the startup load of the
\* background script, and the page's load, reloads and connection.
NextPage ==
    \/ StateManagerInit
    \/ PanelStep
SpecPage == InitFresh /\ [][NextPage]_vars

\* The control messages at work: the startup load, the control messages,
\* one panel, and the hooks of request r1 that write the cache and count
\* the requests (the body is no JSON, so nothing is dispatched).
NextControl ==
    \/ StateManagerInit
    \/ \E v \in ToggleValues : OnMessageToggleListening(v)
    \/ Paths(PathInputs)
    \/ OnMessageGetStatus
    \/ \E v \in ToggleValues : OnMessageToggleDebug(v)
    \/ \E m \in OtherMessages : OnMessageOther(m)
    \/ \E p \in {"p1"}, n \in {"devtools-panel"} : OnConnect(p, n)
    \/ \E d \in DetailsOf({"r1"}) : OnSendHeaders(d)
    \/ \E d \in DetailsOf({"r1"}) : OnBeforeRequest(d, Some(RawBody(GarbageText)), "rejected")
SpecControl == InitFresh /\ [][NextControl]_vars

(***************************************************************************)
(* The correlation cache.                                                  *)
(***************************************************************************)
Timestamp(m, k) == MapGet(m, k).timestamp

\* C1: between listeners the cache holds at most MaxSize entries.
C1_CacheWithinCapacity == Len(cache) <= MaxSize

\* The cache is full after a set has evicted for capacity.
C1_Witness ==
    /\ Len(cache) = MaxSize
    /\ \E k \in RequestIds : lastRemoved = Some([key |-> k, by |-> "capacity"])

\* The cache after requestCache.set(k, ...), called now with an entry of
\* request k.
CacheAfterSet(k) ==
    RequestCacheSet(RC, k,
        [url |-> TargetUrl, method |-> MethodOf(k), type |-> TypeOf(k), timestamp |-> now,
         requestId |-> k, statusCode |-> Undefined],
        now).cache

C3_AbsentAfterAgeBound ==
    \A k \in MapKeys(cache) : now <= Timestamp(cache, k) + ExpiryMs

\* An entry's timer has removed it, no hook having attached a status code
\* to any entry, and the clock has moved on past the age bound.
C3_Witness ==
    /\ \E k \in RequestIds \ MapKeys(cache) : lastRemoved = Some([key |-> k, by |-> "timeout"])
    /\ \A k \in MapKeys(cache) : MapGet(cache, k).statusCode = Undefined
    /\ now > ExpiryMs

\* C4: every pending expiry timer is the only one of its key, is the one
\* the timeouts Map holds for the key, and is due ExpiryMs after the last
\* write of the key's entry.
C4_OneTimerPerKey ==
    \A tm \in timers :
        /\ MapHas(cache, tm.key)
        /\ tm.due = Timestamp(cache, tm.key) + ExpiryMs
        /\ tm.key \in DOMAIN timeouts /\ timeouts[tm.key] = tm.id
        /\ \A other \in timers : other.key = tm.key => other = tm

\* An entry rewritten in minute 1 is still there in minute 6, after the
\* expiry of its first write (minute 0 or 1) would have fired; its only
\* timer is the one of the rewrite.
C4_Witness ==
    \E k \in MapKeys(cache) :
        /\ IsDefined(MapGet(cache, k).statusCode)
        /\ Timestamp(cache, k) = 1
        /\ now = 1 + ExpiryMs
        /\ { tm.due : tm \in { x \in timers : x.key = k } } = {1 + ExpiryMs}

(***************************************************************************)
(* The hooks and the cache.                                                *)
(***************************************************************************)
\* C5: a key enters the cache only in a step of onSendHeaders for that key;
\* a step that changes the cache, its timers or its timeouts is not a step
\* of onHeadersReceived or onCompleted for an id that has no entry; and a
\* status code appears or changes only on an entry that was there, by one
\* of these two hooks called for its id.
C5_OnlySendHeadersCreates ==
    [][ cacheVars' # cacheVars =>
          /\ \A k \in MapKeys(cache') \ MapKeys(cache) :
                \E d \in DetailsOf({k}) : OnSendHeaders(d)
          /\ \A d \in DetailsOf(RequestIds), s \in StatusCodes :
                ~MapHas(cache, d.requestId) =>
                    ~(OnHeadersReceived(d, s) \/ OnCompleted(d, s))
          /\ \A k \in MapKeys(cache') :
                (/\ IsDefined(MapGet(cache', k).statusCode)
                 /\ ~MapHas(cache, k) \/ MapGet(cache, k).statusCode # MapGet(cache', k).statusCode)
                    => /\ MapHas(cache, k)
                       /\ \E d \in DetailsOf({k}), s \in StatusCodes :
                             /\ OnHeadersReceived(d, s) \/ OnCompleted(d, s)
                             /\ MapGet(cache', k).statusCode = Some(s)
      ]_vars

\* One entry carries status code 500 and another id's entry has been
\* evicted for capacity, so a later hook for that id finds nothing.
C5_Witness ==
    /\ \E k \in MapKeys(cache) : MapGet(cache, k).statusCode = Some(500)
    /\ \E k \in RequestIds \ MapKeys(cache) : lastRemoved = Some([key |-> k, by |-> "capacity"])

\* A step hands a message to a destination: the tab query, the generic
\* send or a port.
Dispatches ==
    \/ lastDispatch' # lastDispatch
    \/ tabQueries' \ tabQueries # {}
    \/ Len(genericLog') > Len(genericLog)
    \/ \E p \in Ports : Len(received'[p]) > Len(received[p])

\* C6: a step that hands a message to any destination is a step of
\* onBeforeRequest, and it hands out one message only: the one numbered by
\* the request counter, once to the tab query and at most once to each
\* port and to the generic send.
C6_OnlyBeforeRequestDispatches ==
    [][ Dispatches =>
          /\ \E d \in DetailsOf(RequestIds), b \in RequestBodies, o \in GenericOutcomes :
                OnBeforeRequest(d, b, o)
          /\ requestCounter' = requestCounter + 1
          /\ IsDefined(lastDispatch') /\ TheValue(lastDispatch').id = requestCounter'
          /\ { q.id : q \in tabQueries' } = { q.id : q \in tabQueries } \cup {requestCounter'}
          /\ Cardinality(tabQueries') = Cardinality(tabQueries) + 1
          /\ \A p \in Ports :
                received'[p] \in {received[p], Append(received[p], requestCounter')}
          /\ \/ genericLog' = genericLog
             \/ \E o \in GenericOutcomes :
                   genericLog' = Append(genericLog, [id |-> requestCounter', outcome |-> o])
      ]_vars

\* Request r1 has been through onSendHeaders and a status hook, one message
\* has been dispatched, and a panel holds it once.
C6_Witness ==
    /\ \E k \in MapKeys(cache) : IsDefined(MapGet(cache, k).statusCode)
    /\ requestCounter = 1
    /\ IsDefined(lastDispatch) /\ TheValue(lastDispatch).id = 1
    /\ \E p \in connections : received[p] = <<1>>
    /\ genericLog = <<>>

\* C7: when onBeforeRequest runs for an id that has no cache entry, what it
\* sends is what extraction yields with a requestInfo made of the url,
\* method and type of the hook's details and no status code; the cache is
\* left as it was, so no entry is added, and no fault is raised.
C7_UncachedRequestStillExtracted ==
    [][ requestCounter' # requestCounter =>
          \A d \in DetailsOf(RequestIds), b \in RequestBodies :
              (OnBeforeRequest(d, b, "rejected") /\ ~MapHas(cache, d.requestId)) =>
                  LET message == processRequestData(targetPaths,
                                     RequestDataOf(TheValue(b)), d.url,
                                     [method |-> d.method, type |-> d.type,
                                      statusCode |-> Undefined])
                  IN  /\ UNCHANGED cacheVars
                      /\ fault' = FALSE
                      /\ IF IsDefined(message)
                         THEN /\ lastDispatch' = Some([id |-> requestCounter',
                                                       message |-> TheValue(message)])
                              /\ TheValue(message).requestInfo =
                                    [method |-> d.method, type |-> d.type,
                                     statusCode |-> Undefined, response |-> Undefined]
                         ELSE lastDispatch' = lastDispatch
      ]_vars

\* The hook has dispatched a message while the cache had never held an
\* entry (with the clock stopped an entry leaves only when another comes).
C7_Witness ==
    /\ cache = <<>>
    /\ IsDefined(lastDispatch)
    /\ TheValue(lastDispatch).message.requestInfo =
          [method |-> "POST", type |-> "ping", statusCode |-> Undefined, response |-> Undefined]

(***************************************************************************)
(* The fan-out.                                                            *)
(***************************************************************************)
\* C8: when a message is dispatched with connections in the set, every
\* connection of the set whose send does not throw gets the message once,
\* every one whose send throws gets nothing and leaves the set, no
\* connection joins, and a port outside the set gets nothing.
C8_BroadcastSurvivesThrowingPort ==
    [][ (lastDispatch' # lastDispatch /\ connections # {}) =>
          /\ connections' = { p \in connections : ports[p].state # "closed" }
          /\ \A p \in Ports :
                received'[p] = IF p \in connections /\ ports[p].state # "closed"
                               THEN Append(received[p], requestCounter')
                               ELSE received[p]
      ]_vars

\* One broadcast has reached panel p1 and dropped panel p2, whose send
\* threw: p2 is still closed, its disconnect not yet handled.
C8_Witness ==
    /\ requestCounter = 1
    /\ connections = {"p1"}
    /\ received["p1"] = <<1>>
    /\ ports["p2"] = [name |-> "devtools-panel", state |-> "closed"]
    /\ received["p2"] = <<>>

\* No message went both through the generic send and to a port.
OneChannel ==
    \A i \in 1..Len(genericLog), p \in Ports :
        \A j \in 1..Len(received[p]) : genericLog[i].id # received[p][j]

\* C9: a message dispatched with an empty connection set goes to the
\* generic send once, and whatever the outcome of that send the step
\* raises no fault and leaves the set, the ports, the cache and the
\* settings as they were; a message dispatched with connections in the set
\* does not go to the generic send; so no message goes through both
\* channels.
C9_GenericSendOnlyWithoutConnections ==
    [][ lastDispatch' # lastDispatch =>
          /\ IF connections = {}
             THEN /\ \E o \in GenericOutcomes :
                        genericLog' = Append(genericLog, [id |-> requestCounter', outcome |-> o])
                  /\ fault' = FALSE
                  /\ UNCHANGED <<connections, ports, received, cacheVars, isListening,
                                 targetPaths, debugMode, storageVars>>
             ELSE genericLog' = genericLog
          /\ OneChannel'
      ]_vars

\* The first message went to the generic send, which failed; the second
\* went to a panel that had connected in between.
C9_Witness ==
    /\ Len(genericLog) = 1 /\ genericLog[1].id = 1 /\ genericLog[1].outcome # "delivered"
    /\ \E p \in connections : received[p] = <<2>>
    /\ fault = FALSE

\* The step is the connect of port p.
Connects(p) == ports[p].state = "none" /\ ports'[p].state = "open"

\* C10: a port is in the set after a step exactly if the step is its
\* connect under the name 'devtools-panel', or it was in the set and the
\* step neither handles its disconnect nor fails to send to it; the
\* messages of a port are none at its connect, grow by the message of
\* each dispatch made while it is in the set and its send succeeds, and
\* change in no other step.
C10_PanelGetsMessagesWhileConnected ==
    [][ \A p \in Ports :
          /\ p \in connections' <=>
                \/ Connects(p) /\ ports'[p].name = "devtools-panel"
                \/ /\ p \in connections
                   /\ ports'[p].state # "none"
                   /\ ~(lastDispatch' # lastDispatch /\ ports[p].state = "closed")
          /\ received'[p] =
                IF Connects(p) THEN <<>>
                ELSE IF lastDispatch' # lastDispatch /\ p \in connections
                        /\ ports[p].state = "open"
                THEN Append(received[p], requestCounter')
                ELSE received[p]
      ]_vars

\* Panel p1 was connected for both messages; panel p2 connected after the
\* first and holds the second only.
C10_Witness ==
    /\ received["p1"] = <<1, 2>>
    /\ received["p2"] = <<2>>
    /\ connections = {"p1", "p2"}

(***************************************************************************)
(* The active-tab channel.                                                 *)
(***************************************************************************)
\* No message is handed to a tab twice, nor handed to a tab while its
\* query is still pending, and no message has two queries.
TabOnce ==
    /\ \A t1 \in Tabs, t2 \in Tabs : \A i \in 1..Len(tabReceived[t1]), j \in 1..Len(tabReceived[t2]) :
          tabReceived[t1][i] = tabReceived[t2][j] => t1 = t2 /\ i = j
    /\ \A q \in tabQueries, t \in Tabs : \A i \in 1..Len(tabReceived[t]) : tabReceived[t][i] # q.id
    /\ \A q1 \in tabQueries, q2 \in tabQueries : q1.id = q2.id => q1 = q2

\* C11: a dispatch asks for the tab focused at that dispatch, hands nothing
\* to a tab itself, raises no fault and posts the message to every open
\* panel of the set whatever the tab is; the callback of a query hands the
\* message to the tab its query found, or to none when there was no tab or
\* the send fails, and then the query is gone, no other is made, no fault
\* is raised and the panels, the generic sends, the cache and the settings
\* are as before; only a callback hands a message to a tab, and each
\* message reaches at most one tab once.
C11_TabLookedUpPerDispatch ==
    [][ /\ lastDispatch' # lastDispatch =>
              /\ tabQueries' = tabQueries \cup {[id |-> requestCounter', tab |-> activeTab]}
              /\ tabReceived' = tabReceived
              /\ fault' = FALSE
              /\ \A p \in connections : ports[p].state = "open" =>
                     received'[p] = Append(received[p], requestCounter')
        /\ (lastDispatch' = lastDispatch /\ tabQueries' # tabQueries) =>
              \E q \in tabQueries :
                  /\ tabQueries' = tabQueries \ {q}
                  /\ \/ tabReceived' = tabReceived
                     \/ /\ IsDefined(q.tab)
                        /\ tabReceived' = [tabReceived EXCEPT ![TheValue(q.tab)] = Append(@, q.id)]
                  /\ fault' = FALSE
                  /\ UNCHANGED <<portVars, genericLog, cacheVars, stateVars, activeTab>>
        /\ tabReceived' # tabReceived => tabQueries' # tabQueries /\ lastDispatch' = lastDispatch
        /\ TabOnce'
      ]_vars

\* Message 1 was dispatched while tab t1 was focused and message 2 while
\* tab t2 was; each tab holds its message and a panel holds both.
C11_Witness ==
    /\ tabReceived["t1"] = <<1>>
    /\ tabReceived["t2"] = <<2>>
    /\ \E p \in connections : received[p] = <<1, 2>>

(***************************************************************************)
(* Extraction.                                                             *)
(***************************************************************************)
\* The parsed body of request body b.
BodyOf(b) == safeParseJson(RequestDataOf(TheValue(b)))

\* The step is onBeforeRequest handing body b to processRequestData.
Extracts(b) ==
    /\ requestCounter' # requestCounter
    /\ \E d \in DetailsOf({"r1"}) : OnBeforeRequest(d, b, "rejected")

\* An event envelope: body.events is a non-empty list.
IsEventEnvelope(x) ==
    /\ x.t = "object"
    /\ IsArray(Prop(x, <<"events">>))
    /\ Len(TheValue(Prop(x, <<"events">>)).v) > 0

\* body.meta or body.requestId is present (and not null, 0 or '').
HasMetaOrRequestId(x) ==
    /\ x.t = "object"
    /\ Truthy(Prop(x, <<"meta">>)) \/ Truthy(Prop(x, <<"requestId">>))

\* The target object of an event envelope: events[0].xdm when present,
\* otherwise events[0].
TargetObject(x) ==
    LET event == TheValue(Prop(x, <<"events">>)).v[1]
    IN  IF Truthy(Prop(event, <<"xdm">>)) THEN TheValue(Prop(event, <<"xdm">>)) ELSE event

\* The paths of the list that resolve against root, each with its value,
\* in the order of the list.
Resolved(paths, root) ==
    LET found == SelectSeq(paths, LAMBDA path : IsDefined(getNestedProperty(Some(root), path)))
    IN  [i \in 1..Len(found) |->
            [key |-> found[i], value |-> TheValue(getNestedProperty(Some(root), found[i]))]]

\* The synthetic eventType applies: the list does not name eventType and
\* the target object has one.
Synthetic(paths, target) ==
    /\ \A i \in 1..Len(paths) : paths[i] # <<"eventType">>
    /\ Truthy(Prop(target, <<"eventType">>))

\* The step dispatches a message.
Sends == lastDispatch' # lastDispatch

\* The results of the message the step dispatches.
SentResults == TheValue(lastDispatch').message.results

\* C12 as stated: for an event envelope, and for a body with meta or
\* requestId that is no event envelope, a message is dispatched exactly if
\* a path of the list (or the synthetic eventType) resolves, and no message
\* has empty results.
C12_Original ==
    [][ \A b \in ShapedBodies :
          Extracts(b) =>
              LET x == BodyOf(b)
              IN  /\ IsEventEnvelope(x) =>
                        (Sends <=> \/ Resolved(targetPaths, TargetObject(x)) # <<>>
                                   \/ Synthetic(targetPaths, TargetObject(x)))
                  /\ (~IsEventEnvelope(x) /\ HasMetaOrRequestId(x)) =>
                        (Sends <=> Resolved(targetPaths, x) # <<>>)
                  /\ Sends => SentResults # <<>>
      ]_vars

\* C12, amended: for an event envelope, and for a body with meta or
\* requestId whose events is not a list, a message is dispatched exactly if
\* a path of the list (or the synthetic eventType) resolves; for a body
\* whose events is an empty list none is dispatched; and no message has
\* empty results.
C12_DispatchesIffMatched ==
    [][ \A b \in ShapedBodies :
          Extracts(b) =>
              LET x == BodyOf(b)
              IN  /\ IsEventEnvelope(x) =>
                        (Sends <=> \/ Resolved(targetPaths, TargetObject(x)) # <<>>
                                   \/ Synthetic(targetPaths, TargetObject(x)))
                  /\ (~IsArray(Prop(x, <<"events">>)) /\ HasMetaOrRequestId(x)) =>
                        (Sends <=> Resolved(targetPaths, x) # <<>>)
                  /\ (IsArray(Prop(x, <<"events">>)) /\ ~IsEventEnvelope(x)) => ~Sends
                  /\ Sends => SentResults # <<>>
      ]_vars

\* Two bodies have been processed with the path list naming requestId:
\* one message is out, for a body whose only match is requestId.
C12_Witness ==
    /\ requestCounter = 2
    /\ Len(targetPaths) = 5
    /\ IsDefined(lastDispatch)
    /\ TheValue(lastDispatch).id = 2
    /\ TheValue(lastDispatch).message.results = <<[key |-> RequestIdPath, value |-> JStr(<<"q">>)]>>
    /\ Cardinality(tabQueries) = 1

\* C13: the results of the message dispatched for an event envelope are
\* exactly the paths of the list that resolve against the target object
\* (events[0].xdm when present, otherwise events[0]), each with the value
\* it resolves to, in the order of the list.
C13_ResultsAreResolvedPaths ==
    [][ \A b \in ShapedBodies :
          (Extracts(b) /\ IsEventEnvelope(BodyOf(b)) /\ Sends) =>
              SentResults = Resolved(targetPaths, TargetObject(BodyOf(b)))
      ]_vars

\* The results of handling x as an event envelope: the synthetic eventType
\* if it applies, then the paths that resolve against the target object.
EventResults(paths, x) ==
    (IF Synthetic(paths, TargetObject(x))
     THEN <<[key |-> <<"eventType">>, value |-> TheValue(Prop(TargetObject(x), <<"eventType">>))]>>
     ELSE <<>>) \o Resolved(paths, TargetObject(x))

\* The step sends a message with these results if there are any, and
\* sends none if there are none.
SendsExactly(results) ==
    IF results = <<>> THEN ~Sends ELSE Sends /\ SentResults = results

\* C14 as stated: a body whose events is a non-empty list is handled as an
\* event envelope; any other body with meta or requestId, one with an
\* empty events list included, has the paths resolved against the body
\* itself; any other body yields no message.
C14_Original ==
    [][ \A b \in ShapedBodies :
          Extracts(b) =>
              LET x == BodyOf(b)
              IN  IF IsEventEnvelope(x) THEN SendsExactly(EventResults(targetPaths, x))
                  ELSE IF HasMetaOrRequestId(x) THEN SendsExactly(Resolved(targetPaths, x))
                  ELSE ~Sends
      ]_vars

\* C14, amended: a body whose events is a non-empty list is handled as an
\* event envelope; a body whose events is an empty list yields no message,
\* with or without meta or requestId; a body whose events is not a list and
\* that has meta or requestId has the paths resolved against the body
\* itself; any other body yields no message.
C14_ShapeDispatch ==
    [][ \A b \in ShapedBodies :
          Extracts(b) =>
              LET x == BodyOf(b)
              IN  IF IsEventEnvelope(x) THEN SendsExactly(EventResults(targetPaths, x))
                  ELSE IF IsArray(Prop(x, <<"events">>)) THEN ~Sends
                  ELSE IF HasMetaOrRequestId(x) THEN SendsExactly(Resolved(targetPaths, x))
                  ELSE ~Sends
      ]_vars

\* With the path list naming requestId, the first body processed was
\* {requestId: 'q'} and its message went out; the second body processed
\* yielded none.
C14_Witness ==
    /\ requestCounter = 2
    /\ IsDefined(lastDispatch)
    /\ TheValue(lastDispatch).id = 1
    /\ TheValue(lastDispatch).message.results = <<[key |-> RequestIdPath, value |-> JStr(<<"q">>)]>>
    /\ TheValue(lastDispatch).message.fullXdm = RequestIdBody

\* C15: the results of a message dispatched for an event envelope whose
\* target object has an eventType hold the key eventType once, with that
\* value, whether the path list names eventType or not.
C15_EventTypeAlwaysInResults ==
    [][ \A b \in ShapedBodies :
          (/\ Extracts(b) /\ Sends
           /\ IsEventEnvelope(BodyOf(b))
           /\ IsDefined(Prop(TargetObject(BodyOf(b)), <<"eventType">>))) =>
              /\ Cardinality({ i \in 1..Len(SentResults) : SentResults[i].key = <<"eventType">> }) = 1
              /\ \A i \in 1..Len(SentResults) :
                    SentResults[i].key = <<"eventType">> =>
                        Some(SentResults[i].value) = Prop(TargetObject(BodyOf(b)), <<"eventType">>)
      ]_vars

\* A message has gone out while the path list was empty: its results are
\* the eventType alone.
C15_Witness ==
    /\ targetPaths = <<>>
    /\ IsDefined(lastDispatch)
    /\ TheValue(lastDispatch).message.results =
          <<[key |-> <<"eventType">>, value |-> JStr(<<"click">>)]>>

\* The fullXdm of the message the step dispatches.
SentFullXdm == TheValue(lastDispatch').message.fullXdm

\* C16 as stated: the fullXdm of every dispatched message is the whole
\* parsed request body.
C16_Original ==
    [][ \A b \in ShapedBodies :
          (Extracts(b) /\ Sends) => SentFullXdm = BodyOf(b)
      ]_vars

\* C16, amended: the fullXdm of a message dispatched for an event envelope
\* is the target object (events[0].xdm when present, otherwise events[0]);
\* the fullXdm of a message dispatched for a metadata envelope is the whole
\* parsed request body.
C16_FullXdmIsTargetObject ==
    [][ \A b \in ShapedBodies :
          (Extracts(b) /\ Sends) =>
              SentFullXdm = IF IsEventEnvelope(BodyOf(b)) THEN TargetObject(BodyOf(b))
                            ELSE BodyOf(b)
      ]_vars

\* A message has gone out for {events: [{xdm: ...}]} under the default
\* paths: its fullXdm is the xdm object, not the body.
C16_Witness ==
    /\ targetPaths = getDefaultPaths
    /\ IsDefined(lastDispatch)
    /\ TheValue(lastDispatch).message.fullXdm = ClickXdm
    /\ Len(TheValue(lastDispatch).message.results) = 2

(***************************************************************************)
(* Sanitization.                                                           *)
(***************************************************************************)
\* The four mandatory defaults and the denylisted substrings.
Mandatory ==
    << <<"eventType">>,
       <<"web", ".", "webPageDetails", ".", "URL">>,
       <<"web", ".", "webInteraction", ".", "name">>,
       <<"web", ".", "webInteraction", ".", "region">> >>
Denylist ==
    { <<"_experience", ".", "analytics">>, <<"_intelcorp">>, <<"meta", ".", "state">>,
      <<"timestamp">> }
Denylisted(path) == \E bad \in Denylist : Includes(path, bad)
Range(a) == { a[i] : i \in 1..Len(a) }

\* The inputs of sanitize at hand: the paths of an updatePaths message, the
\* list in memory and the list in storage.
SanitizeInputs ==
    PathInputs \cup {JArr(targetPaths)}
        \cup (IF IsDefined(storage.targetPaths) THEN {JArr(TheValue(storage.targetPaths))} ELSE {})

\* C17: sanitize applied to its own output gives that output again, for a
\* list of paths, the empty list and a value that is no list.
C17_SanitizeIdempotent ==
    \A P \in SanitizeInputs :
        sanitizeTargetPaths(JArr(sanitizeTargetPaths(P))) = sanitizeTargetPaths(P)

\* The list in memory is what sanitize makes of the long list of
\* PathInputs: the defaults, requestId and foo.
C17_Witness ==
    /\ targetPaths = Mandatory \o << RequestIdPath, <<"foo">> >>
    /\ storage.targetPaths = Some(targetPaths)

\* C18: the output of sanitize holds the four mandatory defaults whatever
\* the input is; for an input that is no list it is the four defaults.
C18_SanitizeKeepsDefaults ==
    \A P \in SanitizeInputs :
        /\ Range(Mandatory) \subseteq Range(sanitizeTargetPaths(P))
        /\ P.t # "array" => sanitizeTargetPaths(P) = Mandatory

\* The list in memory is the four defaults after an updatePaths message
\* and after the startup load.
C18_Witness ==
    /\ initDone
    /\ targetPaths = Mandatory
    /\ storage.targetPaths = Some(Mandatory)
    /\ storage.isListening = Some(TRUE)

\* The place of the first occurrence of x in the list a.
FirstAt(a, x) == CHOOSE i \in 1..Len(a) : a[i] = x /\ \A j \in 1..(i - 1) : a[j] # x

C20_PathsAlwaysSanitized ==
    /\ sanitizeTargetPaths(JArr(targetPaths)) = targetPaths
    /\ Range(Mandatory) \subseteq Range(targetPaths)
    /\ \A i \in 1..Len(targetPaths), j \in 1..Len(targetPaths) :
          targetPaths[i] = targetPaths[j] => i = j
    /\ \A i \in 1..Len(targetPaths) : ~Denylisted(targetPaths[i])

(***************************************************************************)
(* The property resolver.                                                  *)
(***************************************************************************)
\* Roots to resolve against: no root, null, 0, '', {a: {b: 1}},
\* {a: 0, n: null}, and the bodies the hooks are given.
ResolveRoots ==
    << Undefined, Some(JNull), Some(JNum(0)), Some(JStr(<<>>)),
       Some(JObj(<<"a">> :> JObj(<<"b">> :> JNum(1)))),
       Some(JObj((<<"a">> :> JNum(0)) @@ (<<"n">> :> JNull))),
       Some(EventBody), Some(BareEventBody), Some(BlankTypeBody), Some(MetaBody),
       Some(NoEventsBody), Some(ClickXdm) >>

\* Paths to resolve: 'a.c.d', 'a', 'a.b', 'a.b.c', 'n', 'n.x', '', 'a.',
\* 'events.0.xdm.eventType', 'events.1', 'meta.foo', and the default paths.
ResolvePaths ==
    { <<"a", ".", "c", ".", "d">>, <<"a">>, <<"a", ".", "b">>, <<"a", ".", "b", ".", "c">>,
      <<"n">>, <<"n", ".", "x">>, <<>>, <<"a", ".">>,
      <<"events", ".", "0", ".", "xdm", ".", "eventType">>, <<"events", ".", "1">>,
      <<"meta", ".", "foo">> } \cup Range(getDefaultPaths)

\* The value at the segments from the i-th on below x: the member named by
\* each segment in turn, absent as soon as one is missing.
RECURSIVE Walk(_, _, _)
Walk(x, segs, i) ==
    IF i > Len(segs) THEN Some(x)
    ELSE IF IsDefined(Prop(x, segs[i])) THEN Walk(TheValue(Prop(x, segs[i])), segs, i + 1)
    ELSE Undefined

\* C21: for every root and every path, resolve raises nothing; it gives
\* absent when the root is absent or null, or when a segment of the path is
\* missing, and otherwise the value found at the path.
C21_ResolveNeverRaises ==
    \A i \in 1..Len(ResolveRoots), path \in ResolvePaths \cup Range(targetPaths) :
        LET root == ResolveRoots[i]
            r == getNestedProperty(root, path)
        IN  /\ ~(IsDefined(r) /\ TheValue(r).t = "TypeError")
            /\ IF ~IsDefined(root) \/ TheValue(root).t = "null"
               THEN r = Undefined
               ELSE r = Walk(TheValue(root), Split(path), 1)

\* A message has gone out for the click body under the loaded default
\* paths: eventType and web.webInteraction.name resolved, and
\* web.webPageDetails.URL and web.webInteraction.region, whose segments are
\* missing, did not.
C21_Witness ==
    /\ initDone
    /\ IsDefined(lastDispatch)
    /\ TheValue(lastDispatch).message.results =
          << [key |-> <<"eventType">>, value |-> JStr(<<"click">>)],
             [key |-> <<"web", ".", "webInteraction", ".", "name">>, value |-> JStr(<<"btn">>)] >>

(***************************************************************************)
(* The request classifier.                                                 *)
(***************************************************************************)
\* Values to classify: the two URLs of the hooks, URLs with each marker
\* missing, one with the markers in another order, one with a marker in
\* other letters, the empty string, and values that are no strings
\* (undefined, null, 0, 5, and a list whose elements are the markers).
ClassifierInputs ==
    << JStr(TargetUrl), JStr(OtherUrl),
       JStr(<<"https://x.com", "/ee/", "v1?", "configId=", "1">>),
       JStr(<<"https://x.com", "/ee/", "v1?", "requestId=", "2">>),
       JStr(<<"https://x.com", "/v1?", "configId=", "1&", "requestId=", "2">>),
       JStr(<<"requestId=", "2&", "configId=", "1", "/ee/">>),
       JStr(<<"https://x.com", "/EE/", "v1?", "configId=", "1&", "requestId=", "2">>),
       JStr(<<"https://x.com">>),
       JStr(<<>>),
       [t |-> "undefined", v |-> <<>>], JNull, JNum(0), JNum(5),
       JArr(<<"/ee/", "configId=", "requestId=">>) >>

\* The three markers.
Markers == { <<"/ee/">>, <<"configId=">>, <<"requestId=">> }

\* C22: a value is classified as a target URL exactly if it is a string
\* that contains each of the three markers; so the empty string, a string
\* that lacks a marker and a value that is no string are not; and every
\* URL a cache entry holds has been classified as a target URL.
C22_ClassifierIffAllMarkers ==
    /\ \A i \in 1..Len(ClassifierInputs) :
          LET url == ClassifierInputs[i]
          IN  isAdobeWebSdkUrl(url) <=>
                  (url.t = "string" /\ \A m \in Markers : Includes(url.v, m))
    /\ isAdobeWebSdkUrl(JStr(TargetUrl))
    /\ ~isAdobeWebSdkUrl(JStr(OtherUrl))
    /\ \A k \in MapKeys(cache) :
          /\ isAdobeWebSdkUrl(JStr(MapGet(cache, k).url))
          /\ MapGet(cache, k).url = TargetUrl

\* The hooks have run for two requests while listening; both entries hold
\* the target URL.
C22_Witness ==
    /\ isListening
    /\ Len(cache) = 2
    /\ \A k \in MapKeys(cache) : MapGet(cache, k).url = TargetUrl

(***************************************************************************)
(* The control messages.                                                   *)
(***************************************************************************)
\* The step is the onMessage listener handling some message.
HandlesMessage ==
    \/ \E v \in ToggleValues : OnMessageToggleListening(v)
    \/ Paths(PathInputs)
    \/ OnMessageGetStatus
    \/ \E v \in ToggleValues : OnMessageToggleDebug(v)
    \/ \E m \in OtherMessages : OnMessageOther(m)

\* The message has no action: there is no message, or its action is
\* missing or ''.
HasNoAction(m) == ~IsDefined(m) \/ ~IsDefined(TheValue(m).action) \/ TheValue(m).action = Some("")

\* The actions of the control interface.
Recognized == {"toggleListening", "updatePaths", "getStatus", "toggleDebug", "devtools-init"}

\* C23: the listener answers every message once; a message without an
\* action is answered {status: 'error', message: 'Invalid message format'},
\* one with an action that is not recognized {status: 'error', message:
\* 'Unknown action'}, and handling either leaves the listening flag, the
\* debug flag, the target paths, the request counter, the cache and the
\* connection set as they were.
C23_MalformedAndUnknownAnswered ==
    [][ /\ HandlesMessage => Len(responses') = 1
        /\ \A m \in OtherMessages :
              (OnMessageOther(m) /\ (HasNoAction(m) \/ TheValue(TheValue(m).action) \notin Recognized)) =>
                  /\ responses' =
                        << [NoFields EXCEPT
                              !.status = Some("error"),
                              !.message = Some(IF HasNoAction(m) THEN "Invalid message format"
                                               ELSE "Unknown action")] >>
                  /\ UNCHANGED <<isListening, debugMode, targetPaths, requestCounter,
                                 cacheVars, connections>>
      ]_vars

\* An unknown action has been answered while the core was listening with a
\* cache entry, a connected panel and a request processed.
C23_Witness ==
    /\ responses = <<ErrorResponse("Unknown action")>>
    /\ isListening /\ initDone
    /\ Len(cache) = 1
    /\ connections = {"p1"}
    /\ requestCounter = 1

\* C24: when updatePaths is handled with a list of paths, the list in
\* memory, the list written to storage and the sanitizedPaths of the
\* response, which is {status: 'success', sanitizedPaths}, are each
\* sanitize of the list sent, and the listening flag, the debug flag and
\* the cache are as they were.
C24_UpdatePathsSanitizesEverywhere ==
    [][ \A paths \in { P \in PathInputs : P.t = "array" } :
          OnMessageUpdatePaths(paths) =>
              /\ targetPaths' = sanitizeTargetPaths(paths)
              /\ storage'.targetPaths = Some(sanitizeTargetPaths(paths))
              /\ responses' = << [NoFields EXCEPT
                                    !.status = Some("success"),
                                    !.sanitizedPaths = Some(sanitizeTargetPaths(paths))] >>
              /\ UNCHANGED <<isListening, debugMode, cacheVars>>
      ]_vars

\* The long list of PathInputs has been sent while the core was listening
\* in debug mode with a cache entry: memory, storage and the response hold
\* the defaults, requestId and foo.
C24_Witness ==
    /\ targetPaths = Mandatory \o << RequestIdPath, <<"foo">> >>
    /\ storage.targetPaths = Some(targetPaths)
    /\ Len(responses) = 1
    /\ responses[1].status = Some("success")
    /\ responses[1].sanitizedPaths = Some(targetPaths)
    /\ isListening /\ debugMode
    /\ Len(cache) = 1

\* C25: the response to getStatus is the snapshot {isListening, targetPaths,
\* debugMode, requestCounter} with the listening flag, the debug flag and
\* the request counter as they are in memory and with sanitize of the list
\* in memory as targetPaths; handling it leaves the listening flag, the
\* debug flag, the request counter, the cache and the connection set as
\* they were.
C25_GetStatusSnapshot ==
    [][ OnMessageGetStatus =>
          /\ responses' = << [NoFields EXCEPT
                                !.isListening = Some(isListening),
                                !.targetPaths = Some(sanitizeTargetPaths(JArr(targetPaths))),
                                !.debugMode = Some(debugMode),
                                !.requestCounter = Some(requestCounter)] >>
          /\ UNCHANGED <<isListening, debugMode, requestCounter, cacheVars, connections>>
      ]_vars

\* getStatus has been answered after two requests were processed, with
\* the core listening in debug mode, a cache entry and a connected panel.
C25_Witness ==
    /\ Len(responses) = 1
    /\ responses[1].requestCounter = Some(MaxRequests)
    /\ responses[1].isListening = Some(TRUE)
    /\ responses[1].debugMode = Some(TRUE)
    /\ responses[1].targetPaths = Some(Mandatory \o <<RequestIdPath>>)
    /\ requestCounter = MaxRequests /\ isListening /\ debugMode
    /\ Len(cache) = 1
    /\ connections = {"p1"}

\* C26: when toggleListening is handled with a boolean value, the
\* listening flag and the isListening written to storage are that value,
\* the response is {status: 'success'}, and the debug flag, the target
\* paths and the cache are as they were; likewise toggleDebug for the debug
\* flag and debugMode, with the listening flag, the target paths and the
\* cache as they were.
C26_TogglesSetAndPersist ==
    [][ \A b \in BOOLEAN :
          /\ OnMessageToggleListening(Some(JBool(b))) =>
                /\ isListening' = b
                /\ storage'.isListening = Some(b)
                /\ responses' = << [NoFields EXCEPT !.status = Some("success")] >>
                /\ UNCHANGED <<debugMode, targetPaths, cacheVars>>
          /\ OnMessageToggleDebug(Some(JBool(b))) =>
                /\ debugMode' = b
                /\ storage'.debugMode = Some(b)
                /\ responses' = << [NoFields EXCEPT !.status = Some("success")] >>
                /\ UNCHANGED <<isListening, targetPaths, cacheVars>>
      ]_vars

\* Listening was switched on and a request cached, then debug mode was
\* switched on and listening off again: memory and storage agree on both
\* flags and the entry is still cached.
C26_Witness ==
    /\ ~isListening /\ storage.isListening = Some(FALSE)
    /\ debugMode /\ storage.debugMode = Some(TRUE)
    /\ responses = <<StatusResponse("success")>>
    /\ Len(cache) = 1
    /\ targetPaths = getDefaultPaths

(***************************************************************************)
(* Bodies that do not parse.                                               *)
(***************************************************************************)
\* C27: when onBeforeRequest hands processRequestData a body that is no
\* JSON, the step hands no message to any destination (no tab query, no
\* port, no generic send), raises no fault, and leaves the cache, the
\* connection set and the target paths as they were.
C27_ParseFailureSkipsExtraction ==
    [][ requestCounter' # requestCounter =>
          \A d \in DetailsOf({"r1", "r2"}), o \in GenericOutcomes :
              OnBeforeRequest(d, Some(RawBody(GarbageText)), o) =>
                  /\ ~Dispatches
                  /\ fault' = FALSE
                  /\ UNCHANGED <<cacheVars, connections, targetPaths>>
      ]_vars

\* Two bodies have been processed with a panel connected and an entry
\* cached: the first was dispatched, the second did not parse and left
\* the panel with the first message only.
C27_Witness ==
    /\ requestCounter = 2
    /\ IsDefined(lastDispatch) /\ TheValue(lastDispatch).id = 1
    /\ connections = {"p1"} /\ received["p1"] = <<1>>
    /\ Len(cache) = 1
    /\ Cardinality(tabQueries) = 1
    /\ genericLog = <<>>

(***************************************************************************)
(* The stored settings and the devtools panel.                             *)
(***************************************************************************)
\* C28: a step of the load of the devtools panel page leaves what storage
\* holds as isListening, debugMode and targetPaths as it was: it neither
\* clears storage nor overwrites a saved flag or path list.
C28_PanelLoadKeepsStorage ==
    [][ panelLoad' # panelLoad =>
          /\ IsDefined(storage.isListening) => storage'.isListening = storage.isListening
          /\ IsDefined(storage.debugMode) => storage'.debugMode = storage.debugMode
          /\ IsDefined(storage.targetPaths) => storage'.targetPaths = storage.targetPaths
      ]_vars

(***************************************************************************)
(* The status hooks.                                                       *)
(***************************************************************************)
\* C29: when onHeadersReceived or onCompleted runs with status code s,
\* while listening and for a target URL, for an id that has an entry, the
\* entry is there afterwards, at its place, with status code s, with its
\* url, method, type and requestId as before, with the time of the hook
\* as timestamp and with one pending timer, due ExpiryMs later; the other
\* entries are as before.  So after hooks in a row the status code is
\* that of the last, and onCompleted removes nothing.
C29_StatusHooksUpdateInPlace ==
    [][ \A d \in DetailsOf({"r1", "r2"}), s \in StatusCodes :
          (/\ isListening /\ isAdobeWebSdkUrl(JStr(d.url)) /\ MapHas(cache, d.requestId)
           /\ OnHeadersReceived(d, s) \/ OnCompleted(d, s)) =>
              LET k == d.requestId
                  before == MapGet(cache, k)
                  after == MapGet(cache', k)
              IN  /\ MapHas(cache', k)
                  /\ MapIndex(cache', k) = MapIndex(cache, k)
                  /\ after.statusCode = Some(s)
                  /\ after.url = before.url /\ after.method = before.method
                  /\ after.type = before.type /\ after.requestId = before.requestId
                  /\ after.timestamp = now
                  /\ { tm.due : tm \in { x \in timers' : x.key = k } } = {now + ExpiryMs}
                  /\ Cardinality({ x \in timers' : x.key = k }) = 1
                  /\ Len(cache') = Len(cache)
                  /\ \A j \in MapKeys(cache) \ {k} : MapGet(cache', j) = MapGet(cache, j)
      ]_vars

\* Entry r1, written in minute 0, got status code 200 in minute 1 and
\* status code 500 in minute 2, and is still cached in minute 6, its only
\* timer due in minute 7.
C29_Witness ==
    /\ now = 2 + ExpiryMs - 1
    /\ MapHas(cache, "r1")
    /\ MapGet(cache, "r1").statusCode = Some(500)
    /\ MapGet(cache, "r1").timestamp = 2
    /\ { tm.due : tm \in { x \in timers : x.key = "r1" } } = {2 + ExpiryMs}
    /\ MapHas(cache, "r2")
    /\ MapGet(cache, "r2").statusCode = Some(200)

(***************************************************************************)
(* Requests in flight at once.                                             *)
(***************************************************************************)
\* The step is a hook called with the details d.
HookOf(d) ==
    \/ OnBeforeSendHeaders(d)
    \/ OnSendHeaders(d)
    \/ OnBeforeRequest(d, Some(RawBody(JsonText(EventBody))), "rejected")
    \/ \E s \in StatusCodes : OnHeadersReceived(d, s) \/ OnCompleted(d, s)

\* C30: a hook of one request leaves the entry of the other request, its
\* timer included, as it was (there or not there); and the message
\* dispatched by onBeforeRequest for a request carries the url, the method
\* and the type of that request, and the status code of that request's
\* entry if it has one.
C30_RequestsDoNotInterfere ==
    [][ \A d \in TwoRequests :
          /\ HookOf(d) =>
                \A k \in {"r1", "r2"} \ {d.requestId} :
                    /\ MapHas(cache', k) <=> MapHas(cache, k)
                    /\ MapHas(cache, k) => MapGet(cache', k) = MapGet(cache, k)
                    /\ { x \in timers' : x.key = k } = { x \in timers : x.key = k }
          /\ (/\ lastDispatch' # lastDispatch
              /\ OnBeforeRequest(d, Some(RawBody(JsonText(EventBody))), "rejected")) =>
                LET message == TheValue(lastDispatch').message
                IN  /\ message.url = d.url
                    /\ message.requestInfo.method = d.method
                    /\ message.requestInfo.type = d.type
                    /\ message.requestInfo.statusCode =
                          IF MapHas(cache, d.requestId)
                          THEN MapGet(cache, d.requestId).statusCode
                          ELSE Undefined
      ]_vars

\* Both requests are cached, r2 written last and with status code 500; the
\* message dispatched then for r1 carries r1's url and type and no status
\* code.
C30_Witness ==
    /\ Len(cache) = 2 /\ cache[2].key = "r2"
    /\ MapGet(cache, "r2").statusCode = Some(500)
    /\ MapGet(cache, "r1").statusCode = Undefined
    /\ IsDefined(lastDispatch)
    /\ TheValue(lastDispatch).message.url = TargetUrl
    /\ TheValue(lastDispatch).message.requestInfo =
          [method |-> "POST", type |-> "xmlhttprequest", statusCode |-> Undefined,
           response |-> Undefined]

(***************************************************************************)
(* The gate of the hooks.                                                  *)
(***************************************************************************)
\* C31: a step of any of the five hooks called with a url that is not a
\* target url leaves every variable as it was: the cache, its timers, the
\* request counter and what has been dispatched, whether or not the id has
\* an entry from an earlier hook; and onSendHeaders called with a target
\* url while listening leaves an entry of that url for its id, whatever
\* the id was called with before.
C31_OtherUrlChangesNothing ==
    [][ \A d \in DetailsOf({"r1", "r2"}) :
          /\ ~isAdobeWebSdkUrl(JStr(d.url)) => (HookOf(d) => UNCHANGED vars)
          /\ (isAdobeWebSdkUrl(JStr(d.url)) /\ isListening /\ OnSendHeaders(d)) =>
                /\ MapHas(cache', d.requestId)
                /\ MapGet(cache', d.requestId).url = d.url
      ]_vars

\* Listening is on, request r1 has an entry without a status code and its
\* message has been dispatched: the hooks of r1 called with another url
\* from here change nothing.
C31_Witness ==
    /\ isListening
    /\ MapHas(cache, "r1") /\ MapGet(cache, "r1").statusCode = Undefined
    /\ MapGet(cache, "r1").url = TargetUrl
    /\ requestCounter = 1
    /\ IsDefined(lastDispatch)
    /\ \E d \in DetailsOf({"r1"}) : ~isAdobeWebSdkUrl(JStr(d.url)) /\ ENABLED HookOf(d)

(***************************************************************************)
(* The devtools panel page: its connection to the background script.       *)
(***************************************************************************)
\* C32: the timer of the onDisconnect listener calls connectToBackgroundPage
\* at most MAX_RECONNECT_ATTEMPTS times in the life of a page whose
\* connection drops after every reconnect.
C32_ReconnectsBounded == reconnects <= MAX_RECONNECT_ATTEMPTS

\* C32, the delays: the timer set before the k-th call in a row waits
\* 2^k seconds.
C32_DelaysGrow ==
    IsDefined(reconnectDelay) => TheValue(reconnectDelay) = Pow(2, reconnects + 1)

(***************************************************************************)
(* The cache and its timers.                                               *)
(***************************************************************************)
\* C33: between listeners the keys with a pending expiry timer, the keys
\* of the timeouts Map and the keys of the cache are the same set; and
\* delete of a key that is not in the cache leaves the cache, the timeouts
\* Map and the pending timers as they are, while delete of a key that is
\* in the cache (what the sweep, the eviction and a timer call) takes the
\* key's timer with the entry.
C33_TimersMatchEntries ==
    /\ { tm.key : tm \in timers } = MapKeys(cache)
    /\ DOMAIN timeouts = MapKeys(cache)
    /\ \A k \in RequestIds \ MapKeys(cache) : RequestCacheDelete(RC, k) = RC
    /\ \A k \in MapKeys(cache) :
          LET after == RequestCacheDelete(RC, k)
          IN  /\ MapKeys(after.cache) = MapKeys(cache) \ {k}
              /\ DOMAIN after.timeouts = MapKeys(after.cache)
              /\ after.timers = { tm \in timers : tm.key # k }

\* A full cache from which a set has just evicted a key for capacity, in
\* a minute in which the evicted entry's timer would still be pending: no
\* timer of that key is left.
C33_Witness ==
    /\ Len(cache) = MaxSize
    /\ now < ExpiryMs
    /\ \E k \in RequestIds \ MapKeys(cache) :
          /\ lastRemoved = Some([key |-> k, by |-> "capacity"])
          /\ \A tm \in timers : tm.key # k

\* C34: a run of the sweep removes the entries last written more than
\* ExpiryMs ago and no other, and leaves the other entries, their places
\* and their pending timers as they were; and an entry that a timer or
\* the sweep removes was last written at least ExpiryMs ago.
C34_AgeEvictionExact ==
    [][ /\ sweepDue' # sweepDue =>
              LET old == { k \in MapKeys(cache) : now - Timestamp(cache, k) > ExpiryMs }
              IN  /\ MapKeys(cache') = MapKeys(cache) \ old
                  /\ cache' = SelectSeq(cache, LAMBDA e : e.key \notin old)
                  /\ timers' = { tm \in timers : tm.key \notin old }
                  /\ DOMAIN timeouts' = MapKeys(cache')
                  /\ \A k \in MapKeys(cache') : timeouts'[k] = timeouts[k]
        /\ (cache' # cache /\ (Sweep \/ \E tm \in timers : ExpiryTimeout(tm))) =>
              \A k \in MapKeys(cache) \ MapKeys(cache') :
                  now >= Timestamp(cache, k) + ExpiryMs
      ]_vars

\* The sweep has run late and has removed an entry older than ExpiryMs;
\* a younger entry is left with its pending timer.
C34_Witness ==
    /\ \E k \in RequestIds \ MapKeys(cache) : lastRemoved = Some([key |-> k, by |-> "sweep"])
    /\ \E k \in MapKeys(cache) :
          /\ now - Timestamp(cache, k) <= ExpiryMs
          /\ \E tm \in timers : tm.key = k /\ tm.due = Timestamp(cache, k) + ExpiryMs

(***************************************************************************)
(* The listening switch.                                                   *)
(***************************************************************************)
\* C35: a step of any of the five hooks taken while isListening is false
\* leaves every variable as it was: the cache, the request counter and
\* what has been dispatched; the entries in the cache are never older than
\* ExpiryMs, whatever the switch says; and the step that turns listening
\* off leaves the cache, its timers and the panel connections as they were.
C35_NothingWhileNotListening ==
    [][ /\ \A d \in DetailsOf({"r1"}) : (~isListening /\ HookOf(d)) => UNCHANGED vars
        /\ \A k \in MapKeys(cache') : now' <= Timestamp(cache', k) + ExpiryMs
        /\ (isListening /\ ~isListening') => UNCHANGED <<cacheVars, portVars>>
      ]_vars

\* Listening is off; the entry written while it was on has been removed
\* by its timer, the panel is still connected and holds the one
\* message dispatched, and the clock has gone on.
C35_Witness ==
    /\ ~isListening
    /\ lastRemoved = Some([key |-> "r1", by |-> "timeout"])
    /\ cache = <<>>
    /\ connections = {"p1"} /\ received["p1"] = <<1>>
    /\ requestCounter = 1
    /\ now > ExpiryMs

(***************************************************************************)
(* The status code and the viewers.                                        *)
(***************************************************************************)
\* C36: with the hooks of a request in the order (b), (c), (d), (e), the
\* message dispatched, the only one a panel or a tab is handed, has no
\* statusCode and no response in its requestInfo, before and after (d)
\* and (e) have recorded a status code in the cache.
C36_StatusCodeNeverDelivered ==
    /\ IsDefined(lastDispatch) =>
          /\ TheValue(lastDispatch).message.requestInfo.statusCode = Undefined
          /\ TheValue(lastDispatch).message.requestInfo.response = Undefined
    /\ \A p \in Ports : \A i \in 1..Len(received[p]) :
          IsDefined(lastDispatch) /\ received[p][i] = TheValue(lastDispatch).id
    /\ \A t \in Tabs : \A i \in 1..Len(tabReceived[t]) :
          IsDefined(lastDispatch) /\ tabReceived[t][i] = TheValue(lastDispatch).id

\* The request has been through (b), (c), (d) and (e): its entry holds
\* status code 200, and the panel and a tab hold the one message, which
\* carries none.
C36_Witness ==
    /\ MapHas(cache, "r1") /\ MapGet(cache, "r1").statusCode = Some(200)
    /\ received["p1"] = <<1>>
    /\ \E t \in Tabs : tabReceived[t] = <<1>>
    /\ TheValue(lastDispatch).message.requestInfo.statusCode = Undefined

(***************************************************************************)
(* The listening flag in memory and in storage.                            *)
(***************************************************************************)
\* C37: when the startup load has run and no callback of the panel page's
\* storage calls is pending, a persisted isListening equals
\* state.isListening.
C37_FlagMatchesStorage ==
    (/\ initDone
     /\ panelPage = "closed" \/ panelLoad = "loaded"
     /\ IsDefined(storage.isListening))
        => TheValue(storage.isListening) = isListening

(***************************************************************************)
(* The devtools panel page: its reload for cleanup.                        *)
(***************************************************************************)
\* C38: a panel page calls location.reload() at most once from the time
\* the panel is opened.
C38_ReloadsAtMostOnce == reloads <= 1

(***************************************************************************)
(* The request counter.                                                    *)
(***************************************************************************)
\* Hook (c) called with details d and body b hands a body to
\* processRequestData: listening is on, the url is a target url, the
\* method is POST and the requestData read from the body is not empty.
HandsToExtraction(d, b) ==
    /\ isListening
    /\ isAdobeWebSdkUrl(JStr(d.url))
    /\ d.method = "POST"
    /\ IsDefined(b)
    /\ RequestDataOf(TheValue(b)).kind # "empty"

\* Bodies that processRequestData takes and sends nothing for: one that
\* does not parse and one in which no path matches.
SilentBodies == {Some(RawBody(GarbageText)), Some(RawBody(JsonText(ZeroMatchBody)))}

\* C39: where hook (c) hands over a body that does not parse or matches
\* nothing, it raises the request counter by one all the same; a step
\* that sends a message raises the counter by one; a step that changes
\* the counter is a step of hook (c) that hands a body over, and raises
\* it by one, so no other hook, no timer and no control message changes
\* it; and getStatus answers with the counter as it is.
C39_CounterCountsHandedBodies ==
    /\ [](\A d \in DetailsOf({"r1"}), b \in SilentBodies :
            (HandsToExtraction(d, b) /\ requestCounter < MaxRequests) =>
               /\ ENABLED OnBeforeRequest(d, b, "rejected")
               /\ ~ENABLED (/\ OnBeforeRequest(d, b, "rejected")
                            /\ requestCounter' # requestCounter + 1))
    /\ [][ /\ requestCounter' # requestCounter =>
                /\ requestCounter' = requestCounter + 1
                /\ \E d \in DetailsOf({"r1", "r3"}), b \in RequestBodies :
                      HandsToExtraction(d, b) /\ OnBeforeRequest(d, b, "rejected")
           /\ lastDispatch' # lastDispatch => requestCounter' = requestCounter + 1
           /\ OnMessageGetStatus =>
                /\ responses'[1].requestCounter = Some(requestCounter)
                /\ requestCounter' = requestCounter
         ]_vars

\* getStatus has answered 2 after two requests were counted of which
\* none sent a message: the bodies did not parse or matched nothing.
C39_Witness ==
    /\ requestCounter = 2
    /\ lastDispatch = Undefined
    /\ Len(responses) = 1 /\ responses[1].requestCounter = Some(2)
    /\ now > 0

====
